---- MODULE Spec2Model ----
(***************************************************************************)
(* Model of the Elasticsearch data-source connector:                       *)
(*   plugin-elasticsearch-data-source/src/server/collection-manager.ts     *)
(*     (ElasticsearchCollectionManager and ElasticsearchRepository)        *)
(*   plugin-elasticsearch-data-source/src/server/data-source.ts            *)
(*     (HttpElasticsearchClient and ElasticsearchDataSource)               *)
(*                                                                         *)
(* JavaScript strings are sequences of one-character strings, so that      *)
(* startsWith, slice, split, replace and truthiness are computed and not   *)
(* assumed.  A sequence holding one longer token is a non-string value:    *)
(* Undef is `undefined`, Zero is the number 0.                             *)
(***************************************************************************)
EXTENDS Integers, Sequences, FiniteSets, TLC

VARIABLES client, docs, visible, last, prev, nops, callers, indices, registry, synced

vars == <<client, docs, visible, last, prev, nops, callers, indices, registry, synced>>

(***************************************************************************)
(* JavaScript values                                                       *)
(***************************************************************************)
Undef == <<"#undefined">>
Zero == <<"#0">>

\* JS truthiness of a string, a number or undefined: '' , 0 and undefined are falsy
Truthy(x) == x # Undef /\ x # Zero /\ x # <<>>

\* encodeURIComponent(x) / String(x) of an identity literal
ToStr(x) == IF x = Zero THEN <<"0">> ELSE x

\* a || b
OrElse(a, b) == IF Truthy(a) THEN a ELSE b

\* tagged JS values used for filters and sorts
JUndef == [t |-> "undef"]
JStr(cs) == [t |-> "str", s |-> cs]
JArr(items) == [t |-> "arr", items |-> items]
JObj(ents) == [t |-> "obj", ents |-> ents]
Ent(k, v) == [k |-> k, v |-> v]

\* !!v for a tagged value
JTruthy(v) == CASE v.t = "undef" -> FALSE
                [] v.t = "str" -> Truthy(v.s)
                [] OTHER -> TRUE

\* obj[key] for a tagged object (JUndef when the key is absent)
JGet(obj, key) ==
  IF obj.t = "obj" /\ \E i \in 1..Len(obj.ents) : obj.ents[i].k = key
  THEN obj.ents[CHOOSE i \in 1..Len(obj.ents) : obj.ents[i].k = key].v
  ELSE JUndef

isPlainObject(input) == JTruthy(input) /\ input.t = "obj"

\* field names and operator keys
K_id == <<"i", "d">>
K_title == <<"t", "i", "t", "l", "e">>
K_status == <<"s", "t", "a", "t", "u", "s">>
K_and == <<"$", "a", "n", "d">>
K_or == <<"$", "o", "r">>
K_in == <<"$", "i", "n">>
K_ne == <<"$", "n", "e">>
K_like == <<"$", "l", "i", "k", "e">>
K_includes == <<"$", "i", "n", "c", "l", "u", "d", "e", "s">>
K_contains == <<"$", "c", "o", "n", "t", "a", "i", "n", "s">>
K_gt == <<"$", "g", "t">>
K_gte == <<"$", "g", "t", "e">>
K_lt == <<"$", "l", "t">>
K_lte == <<"$", "l", "t", "e">>

ES_RANGE_KEYS == <<K_gt, K_gte, K_lt, K_lte>>

\* s.startsWith(c) for a one-character c
startsWith(s, c) == Len(s) > 0 /\ s[1] = c

\* s.slice(1)
slice1(s) == IF Len(s) = 0 THEN s ELSE Tail(s)

\* op.replace('$', ''): removes the first '$'
RECURSIVE replaceFirst(_, _)
replaceFirst(s, c) ==
  IF s = <<>> THEN <<>>
  ELSE IF Head(s) = c THEN Tail(s)
  ELSE <<Head(s)>> \o replaceFirst(Tail(s), c)

\* String(val).replace(/%/g, '*')
replaceAll(s, c, d) == [i \in 1..Len(s) |-> IF s[i] = c THEN d ELSE s[i]]

includes(seq, x) == \E i \in 1..Len(seq) : seq[i] = x

(***************************************************************************)
(* buildQuery: the filter compiler                                         *)
(***************************************************************************)
MatchAll == [t |-> "match_all"]

\* { bool: { must: [...] } }, { bool: { should: [...], minimum_should_match: 1 } }
BoolMust(cs) == [t |-> "bool", keys |-> <<"must">>, must |-> cs, must_not |-> <<>>,
                 should |-> <<>>, minimum_should_match |-> 0]
\* a should-clause without the minimum
BoolShould_noMinimum(cs) ==
  [t |-> "bool", keys |-> <<"should">>, must |-> <<>>, must_not |-> <<>>,
   should |-> cs, minimum_should_match |-> 0]
BoolShould(cs) == [t |-> "bool", keys |-> <<"should", "minimum_should_match">>,
                   must |-> <<>>, must_not |-> <<>>, should |-> cs,
                   minimum_should_match |-> 1]
Leaf(kind, field, val) == [t |-> kind, field |-> field, value |-> val]

\* the wildcard pattern of $like
LikePattern(val) == IF val.t = "str" THEN JStr(replaceAll(val.s, "%", "*")) ELSE val

\* a step that pushes one range clause per range operator
OpStep_clausePerBound(acc, field, op, val) ==
  IF op = K_in THEN [acc EXCEPT !.bools = Append(@, Leaf("terms", field, val))]
  ELSE IF op = K_ne THEN [acc EXCEPT !.mustNot = Append(@, Leaf("term", field, val))]
  ELSE IF op = K_like
    THEN [acc EXCEPT !.bools = Append(@, Leaf("wildcard", field, LikePattern(val)))]
  ELSE IF op = K_includes \/ op = K_contains
    THEN [acc EXCEPT !.bools = Append(@, Leaf("match", field, val))]
  ELSE IF includes(ES_RANGE_KEYS, op)
    THEN [acc EXCEPT !.bools =
            Append(@, Leaf("range", field, JObj(<<Ent(replaceFirst(op, "$"), val)>>)))]
  ELSE [acc EXCEPT !.bools = Append(@, Leaf("term", field, val))]

\* one step of the inner forEach over the operator object (lines 270-293):
\* acc = [bools, range, mustNot]
OpStep(acc, field, op, val) ==
  IF op = K_in THEN [acc EXCEPT !.bools = Append(@, Leaf("terms", field, val))]
  ELSE IF op = K_ne THEN [acc EXCEPT !.mustNot = Append(@, Leaf("term", field, val))]
  ELSE IF op = K_like
    THEN [acc EXCEPT !.bools = Append(@, Leaf("wildcard", field, LikePattern(val)))]
  ELSE IF op = K_includes \/ op = K_contains
    THEN [acc EXCEPT !.bools = Append(@, Leaf("match", field, val))]
  ELSE IF includes(ES_RANGE_KEYS, op)
    THEN [acc EXCEPT !.range = Append(@, Ent(replaceFirst(op, "$"), val))]
  ELSE [acc EXCEPT !.bools = Append(@, Leaf("term", field, val))]

RECURSIVE OpFold(_, _, _, _)
OpFold(acc, field, ents, i) ==
  IF i > Len(ents) THEN acc
  ELSE OpFold(OpStep(acc, field, ents[i].k, ents[i].v), field, ents, i + 1)

\* one step of the outer forEach over the filter's entries (lines 262-303):
\* acc = [must, mustNot]
FieldStep(acc, field, value) ==
  IF startsWith(field, "$") THEN acc
  ELSE IF isPlainObject(value)
    THEN LET r == OpFold([bools |-> <<>>, range |-> <<>>, mustNot |-> acc.mustNot],
                         field, value.ents, 1)
             bools == IF Len(r.range) > 0
                      THEN Append(r.bools, Leaf("range", field, JObj(r.range)))
                      ELSE r.bools
         IN [must |-> acc.must \o bools, mustNot |-> r.mustNot]
  ELSE [acc EXCEPT !.must = Append(@, Leaf("term", field, value))]

RECURSIVE FieldFold(_, _, _)
FieldFold(acc, ents, i) ==
  IF i > Len(ents) THEN acc
  ELSE FieldFold(FieldStep(acc, ents[i].k, ents[i].v), ents, i + 1)

\* a compiler that returns the bool query whether or not it has a clause
BoolOf_emptyBool(must, mustNot) ==
  [t |-> "bool",
   keys |-> (IF Len(must) > 0 THEN <<"must">> ELSE <<>>)
            \o (IF Len(mustNot) > 0 THEN <<"must_not">> ELSE <<>>),
   must |-> must, must_not |-> mustNot, should |-> <<>>, minimum_should_match |-> 0]

\* lines 305-317
BoolOf(must, mustNot) ==
  IF Len(must) = 0 /\ Len(mustNot) = 0 THEN MatchAll
  ELSE [t |-> "bool",
        keys |-> (IF Len(must) > 0 THEN <<"must">> ELSE <<>>)
                 \o (IF Len(mustNot) > 0 THEN <<"must_not">> ELSE <<>>),
        must |-> must, must_not |-> mustNot, should |-> <<>>,
        minimum_should_match |-> 0]

RECURSIVE buildQuery(_)

\* a compiler that adds the field-keyed siblings of $and to its conjunction
buildQuery_withSiblings(filter) ==
  IF ~JTruthy(filter) \/ (filter.t = "arr" /\ Len(filter.items) = 0) THEN MatchAll
  ELSE IF filter.t = "arr"
    THEN BoolMust([i \in 1..Len(filter.items) |-> buildQuery(filter.items[i])])
  ELSE IF JTruthy(JGet(filter, K_and))
    THEN BoolMust([i \in 1..Len(JGet(filter, K_and).items) |->
                     buildQuery(JGet(filter, K_and).items[i])]
                  \o FieldFold([must |-> <<>>, mustNot |-> <<>>], filter.ents, 1).must)
  ELSE IF JTruthy(JGet(filter, K_or))
    THEN BoolShould([i \in 1..Len(JGet(filter, K_or).items) |->
                       buildQuery(JGet(filter, K_or).items[i])])
  ELSE BoolOf(FieldFold([must |-> <<>>, mustNot |-> <<>>], filter.ents, 1).must,
              FieldFold([must |-> <<>>, mustNot |-> <<>>], filter.ents, 1).mustNot)

buildQuery(filter) ==
  IF ~JTruthy(filter) \/ (filter.t = "arr" /\ Len(filter.items) = 0) THEN MatchAll
  ELSE IF filter.t = "arr"
    THEN BoolMust([i \in 1..Len(filter.items) |-> buildQuery(filter.items[i])])
  ELSE IF JTruthy(JGet(filter, K_and))
    THEN LET a == JGet(filter, K_and).items
         IN BoolMust([i \in 1..Len(a) |-> buildQuery(a[i])])
  ELSE IF JTruthy(JGet(filter, K_or))
    THEN LET o == JGet(filter, K_or).items
         IN BoolShould([i \in 1..Len(o) |-> buildQuery(o[i])])
  ELSE LET r == FieldFold([must |-> <<>>, mustNot |-> <<>>], filter.ents, 1)
       IN BoolOf(r.must, r.mustNot)

(***************************************************************************)
(* normalizeSort: the sort normaliser                                      *)
(***************************************************************************)
K_order == <<"o", "r", "d", "e", "r">>
S_asc == <<"a", "s", "c">>
S_desc == <<"d", "e", "s", "c">>

\* { [field]: { order } }
SortEntry(field, order) == JObj(<<Ent(field, JObj(<<Ent(K_order, JStr(order))>>))>>)

\* s.split(','): the pieces between commas, empty pieces included
RECURSIVE split(_, _)
split(s, cur) ==
  IF s = <<>> THEN <<cur>>
  ELSE IF Head(s) = "," THEN <<cur>> \o split(Tail(s), <<>>)
  ELSE split(Tail(s), Append(cur, Head(s)))

\* s.trim()
RECURSIVE trimStart(_)
trimStart(s) == IF s # <<>> /\ Head(s) = " " THEN trimStart(Tail(s)) ELSE s
RECURSIVE trimEnd(_)
trimEnd(s) ==
  IF s # <<>> /\ s[Len(s)] = " " THEN trimEnd(SubSeq(s, 1, Len(s) - 1)) ELSE s
trim(s) == trimEnd(trimStart(s))

\* a mapping that keeps the '-' in the field name
SortToken_keepsDash(tok) ==
  SortEntry(tok, IF startsWith(tok, "-") THEN S_desc ELSE S_asc)

\* the token -> entry mapping of lines 211-213 and 219-221
SortToken(tok) ==
  LET desc == startsWith(tok, "-")
      field == IF desc THEN slice1(tok) ELSE tok
  IN SortEntry(field, IF desc THEN S_desc ELSE S_asc)

normalizeSort(sort) ==
  IF ~JTruthy(sort) THEN <<>>
  ELSE IF sort.t = "str"
    THEN LET parts == split(sort.s, <<>>)
         IN [i \in 1..Len(parts) |-> SortToken(trim(parts[i]))]
  ELSE IF sort.t = "arr"
    THEN [i \in 1..Len(sort.items) |->
            IF sort.items[i].t = "str" THEN SortToken(sort.items[i].s)
            ELSE sort.items[i]]
  ELSE <<>>

(***************************************************************************)
(* The backend: documents by identity, and the searchable snapshot that    *)
(* search and count read.  A write is searchable once the snapshot is      *)
(* refreshed: at once when the write request carries the refresh hint,     *)
(* else at the backend's next periodic refresh.  Get by identity reads the *)
(* documents themselves.                                                   *)
(***************************************************************************)
Fields == {K_id, K_title, K_status}

\* the backend's default hit order, and the order of field values
IdSeq == << <<"0">>, <<"1">>, <<"2">>, <<"7">> >>
ValSeq == << <<"a">>, <<"b">>, <<"1">>, <<"2">> >>

SeqIndex(seq, x) == IF includes(seq, x) THEN CHOOSE i \in 1..Len(seq) : seq[i] = x ELSE 0

\* a stored document / a values object: each field holds a string or is absent
EmptySource == [f \in Fields |-> Undef]

\* { ...a, ...b }
Spread(a, b) == [f \in Fields |-> IF b[f] # Undef THEN b[f] ELSE a[f]]

\* const { id, ...rest } = values
Rest(values) == [values EXCEPT ![K_id] = Undef]

Put(d, id, src) == [i \in DOMAIN d \cup {id} |-> IF i = id THEN src ELSE d[i]]
Drop(d, id) == [i \in DOMAIN d \ {id} |-> d[i]]

\* the value a leaf clause compares with, as a string (Undef when it is none)
Scalar(v) == IF v.t = "str" THEN v.s ELSE Undef

\* wildcard matching: '*' matches any run of characters
RECURSIVE Glob(_, _)
Glob(p, s) ==
  IF p = <<>> THEN s = <<>>
  ELSE IF Head(p) = "*"
    THEN Glob(Tail(p), s) \/ (s # <<>> /\ Glob(p, Tail(s)))
  ELSE s # <<>> /\ Head(s) = Head(p) /\ Glob(Tail(p), Tail(s))

\* one bound of a range clause
RangeBound(key, bound, val) ==
  LET b == SeqIndex(ValSeq, Scalar(bound))
      x == SeqIndex(ValSeq, val)
  IN CASE key = <<"g", "t">> -> x > b
       [] key = <<"g", "t", "e">> -> x >= b
       [] key = <<"l", "t">> -> x < b
       [] key = <<"l", "t", "e">> -> x <= b
       [] OTHER -> TRUE

\* whether a stored document satisfies a compiled query
RECURSIVE Matches(_, _)
Matches(q, src) ==
  CASE q.t = "match_all" -> TRUE
    [] q.t = "bool" ->
         /\ \A i \in 1..Len(q.must) : Matches(q.must[i], src)
         /\ \A i \in 1..Len(q.must_not) : ~Matches(q.must_not[i], src)
         /\ (q.minimum_should_match = 1
               => \E i \in 1..Len(q.should) : Matches(q.should[i], src))
    [] q.field \notin Fields \/ src[q.field] = Undef -> FALSE
    [] q.t = "term" -> src[q.field] = Scalar(q.value)
    [] q.t = "match" -> src[q.field] = Scalar(q.value)
    [] q.t = "terms" ->
         q.value.t = "arr"
         /\ \E i \in 1..Len(q.value.items) : src[q.field] = Scalar(q.value.items[i])
    [] q.t = "wildcard" -> q.value.t = "str" /\ Glob(q.value.s, src[q.field])
    [] q.t = "range" ->
         \A i \in 1..Len(q.value.ents) :
            RangeBound(q.value.ents[i].k, q.value.ents[i].v, src[q.field])
    [] OTHER -> FALSE

\* the identities of the documents of d matching q, in the default order
RECURSIVE MatchIds(_, _, _)
MatchIds(q, d, i) ==
  IF i > Len(IdSeq) THEN <<>>
  ELSE (IF IdSeq[i] \in DOMAIN d /\ Matches(q, d[IdSeq[i]]) THEN <<IdSeq[i]>> ELSE <<>>)
       \o MatchIds(q, d, i + 1)

\* the sort key of a normalised sort entry: its field and direction
SortField(e) == e.ents[1].k
SortDesc(e) == Scalar(JGet(e.ents[1].v, K_order)) = S_desc

\* a before b under the sort list from entry k on (documents lacking the field last)
RECURSIVE Before(_, _, _, _, _)
Before(sort, k, d, a, b) ==
  IF k > Len(sort) THEN FALSE
  ELSE LET f == SortField(sort[k])
           ra == IF f \in Fields /\ d[a][f] # Undef THEN SeqIndex(ValSeq, d[a][f]) ELSE 99
           rb == IF f \in Fields /\ d[b][f] # Undef THEN SeqIndex(ValSeq, d[b][f]) ELSE 99
       IN IF ra = rb \/ ra = 99 \/ rb = 99
          THEN (IF ra = rb THEN Before(sort, k + 1, d, a, b) ELSE rb = 99)
          ELSE (IF SortDesc(sort[k]) THEN ra > rb ELSE ra < rb)

\* stable insertion of id into an ordered sequence
RECURSIVE Insert(_, _, _, _)
Insert(sort, d, sorted, id) ==
  IF sorted = <<>> THEN <<id>>
  ELSE IF Before(sort, 1, d, id, Head(sorted)) THEN <<id>> \o sorted
  ELSE <<Head(sorted)>> \o Insert(sort, d, Tail(sorted), id)

RECURSIVE SortIds(_, _, _, _)
SortIds(sort, d, ids, i) ==
  IF i = 0 THEN <<>>
  ELSE Insert(sort, d, SortIds(sort, d, ids, i - 1), ids[i])

\* the slice of a hit list a search returns: size hits after skipping from
Page(ids, from, size) ==
  SubSeq(ids, from + 1, IF from + size < Len(ids) THEN from + size ELSE Len(ids))

Hit(d, id) == [_id |-> id, _source |-> d[id]]

\* the backend's answer to one wire request: its new documents, its new
\* searchable snapshot, the response payload, and the identity it wrote at.
\* auto is the identity the backend would assign to a non-addressed insert.
Backend(req, d, v, auto) ==
  LET at == IF req.id = Undef THEN auto ELSE req.id
      seen(nd) == IF req.refresh THEN nd ELSE v
      out(nd, nv, resp, w) == [docs |-> nd, visible |-> nv, resp |-> resp, at |-> w]
  IN CASE req.api = "_doc" /\ req.method \in {"PUT", "POST"} ->
            LET nd == Put(d, at, req.body)
            IN out(nd, seen(nd), [_id |-> at, result |-> "indexed"], at)
       [] req.api = "_update" ->
            IF req.id \in DOMAIN d
            THEN LET nd == Put(d, req.id, Spread(d[req.id], req.body.doc))
                 IN out(nd, seen(nd), [_id |-> req.id, result |-> "updated"], req.id)
            ELSE out(d, v, [status |-> 404, error |-> "document_missing"], Undef)
       [] req.api = "_doc" /\ req.method = "DELETE" ->
            IF req.id \in DOMAIN d
            THEN LET nd == Drop(d, req.id)
                 IN out(nd, seen(nd), [_id |-> req.id, result |-> "deleted"], req.id)
            ELSE out(d, v, [_id |-> req.id, result |-> "not_found"], Undef)
       [] req.api = "_doc" /\ req.method = "GET" ->
            IF req.id \in DOMAIN d
            THEN out(d, v, [found |-> TRUE, _id |-> req.id, _source |-> d[req.id]], Undef)
            ELSE out(d, v, [found |-> FALSE, _id |-> req.id], Undef)
       [] req.api = "_search" ->
            LET all == MatchIds(req.body.query, v, 1)
                ord == IF "sort" \in DOMAIN req.body
                       THEN SortIds(req.body.sort, v, all, Len(all)) ELSE all
                page == Page(ord, req.body.from, req.body.size)
            IN out(d, v, [hits |-> [hits |-> [i \in 1..Len(page) |-> Hit(v, page[i])],
                                    total |-> [value |-> Len(all)]]], Undef)
       [] req.api = "_count" ->
            out(d, v, [count |-> Len(MatchIds(req.body, v, 1))], Undef)

(***************************************************************************)
(* The transport clients.  A client call is [fn, id, document | doc | body |*)
(* query, refresh]; a wire request is what the backend receives.           *)
(***************************************************************************)
NoNum == 0 - 1

Req(method, api, id, body, refresh) ==
  [method |-> method, api |-> api, id |-> id, body |-> body, refresh |-> refresh]

\* HttpElasticsearchClient.search / get / index / update / delete / count
Http_search(call) == Req("POST", "_search", Undef, call.body, FALSE)
Http_get(call) == Req("GET", "_doc", ToStr(call.id), Undef, FALSE)
Http_index(call) ==
  IF Truthy(call.id) THEN Req("PUT", "_doc", ToStr(call.id), call.document, FALSE)
  ELSE Req("POST", "_doc", Undef, call.document, FALSE)
Http_update(call) == Req("POST", "_update", ToStr(call.id), [doc |-> call.doc], FALSE)
Http_delete(call) == Req("DELETE", "_doc", ToStr(call.id), Undef, FALSE)
Http_count(call) == Req("POST", "_count", Undef, call.query, FALSE)

HttpWire(call) ==
  CASE call.fn = "search" -> Http_search(call)
    [] call.fn = "get" -> Http_get(call)
    [] call.fn = "index" -> Http_index(call)
    [] call.fn = "update" -> Http_update(call)
    [] call.fn = "delete" -> Http_delete(call)
    [] call.fn = "count" -> Http_count(call)

\* HttpElasticsearchClient.request: the { status, body } envelope
HttpEnvelope(resp) ==
  [status |-> IF "status" \in DOMAIN resp THEN resp.status ELSE 200, body |-> resp]

\* a pre-built client handed in as options.client: it sends the call as it
\* was given, the refresh hint included, and returns the bare payload
ClientWire(call) ==
  CASE call.fn = "search" -> Req("POST", "_search", Undef, call.body, FALSE)
    [] call.fn = "get" -> Req("GET", "_doc", ToStr(call.id), Undef, FALSE)
    [] call.fn = "index" ->
         IF call.id # Undef
         THEN Req("PUT", "_doc", ToStr(call.id), call.document, call.refresh)
         ELSE Req("POST", "_doc", Undef, call.document, call.refresh)
    [] call.fn = "update" ->
         Req("POST", "_update", ToStr(call.id), [doc |-> call.doc], call.refresh)
    [] call.fn = "delete" -> Req("DELETE", "_doc", ToStr(call.id), Undef, call.refresh)
    [] call.fn = "count" -> Req("POST", "_count", Undef, call.query, FALSE)

\* ElasticsearchDataSource.createClient: options.client, else the HTTP client
createClient(call) == IF client = "http" THEN HttpWire(call) ELSE ClientWire(call)

IsWriteCall(call) == call.fn \in {"index", "update", "delete"}

\* a write that fails: which write request of the run fails (none when at is 0)
\* and how.  "reject": the request never completes (fetch rejects, the client's
\* promise rejects).  "status": the backend answers with an HTTP error status.
NoFault == [at |-> 0, kind |-> "none"]

\* the run of one repository operation: the backend as it stands, the client
\* calls made so far, the wire requests received and where each write landed,
\* the write that is going to fail, and whether a client call has thrown
FaultyCtx(d, v, fault) ==
  [docs |-> d, visible |-> v, calls |-> <<>>, wire |-> <<>>, ats |-> <<>>,
   fault |-> fault, thrown |-> FALSE]

Ctx(d, v) == FaultyCtx(d, v, NoFault)

\* whether call is the write of the run that fails
Fails(ctx, call) ==
  /\ IsWriteCall(call)
  /\ ctx.fault.at = Cardinality({i \in 1..Len(ctx.calls) : IsWriteCall(ctx.calls[i])}) + 1

\* the backend's answer to a failing write: nothing is written
Failed(ctx) ==
  [docs |-> ctx.docs, visible |-> ctx.visible,
   resp |-> [status |-> 503, error |-> "unavailable", fault |-> ctx.fault.kind],
   at |-> Undef]

\* whether the client raises on the answer.  HttpElasticsearchClient.request
\* returns { status, body } whatever the status is, and raises only when fetch
\* itself rejects; a pre-built client raises on an error response as well.
Raises(resp) ==
  "fault" \in DOMAIN resp /\ (resp.fault = "reject" \/ client = "injected")

\* the run after the backend answered b to the wire request req of call
Landed(ctx, call, req, b) ==
  [ctx |-> [docs |-> b.docs, visible |-> b.visible,
            calls |-> Append(ctx.calls, call),
            wire |-> Append(ctx.wire, req),
            ats |-> Append(ctx.ats, b.at),
            fault |-> ctx.fault,
            thrown |-> ctx.thrown \/ Raises(b.resp)],
   result |-> IF client = "http" THEN HttpEnvelope(b.resp) ELSE b.resp]

Sent(ctx, call, req, auto) ==
  Landed(ctx, call, req,
         IF Fails(ctx, call) THEN Failed(ctx)
         ELSE Backend(req, ctx.docs, ctx.visible, auto))

\* await this.client.<fn>(call): the call's effect and its result
Await(ctx, call, auto) == Sent(ctx, call, createClient(call), auto)

\* result?.body || result || {}
Payload(result) == IF "body" \in DOMAIN result THEN result.body ELSE result

(***************************************************************************)
(* ElasticsearchRepository.  Each method takes the run so far and returns  *)
(* the run after it with what it returns: [ctx, err, rows, total].         *)
(* A Row-or-null is a sequence of at most one Row.                         *)
(***************************************************************************)
DefaultLimit == 50
BulkLimit == 1000

Ret(ctx, err, rows, total) == [ctx |-> ctx, err |-> err, rows |-> rows, total |-> total]

\* wrap(hit) for a hit that is not null: { id, ...source }
wrap(hit) ==
  LET source == IF "_source" \in DOMAIN hit THEN hit._source ELSE EmptySource
      id == OrElse(hit._id, source[K_id])
  IN <<Spread([EmptySource EXCEPT ![K_id] = id], source)>>

\* hits.map((hit) => this.wrap(hit)).filter(Boolean)
RECURSIVE wrapAll(_, _)
wrapAll(hits, i) == IF i > Len(hits) THEN <<>> ELSE wrap(hits[i]) \o wrapAll(hits, i + 1)

\* options of find / findAndCount / search
FindOptions(filter, limit, offset, sort) ==
  [filter |-> filter, limit |-> limit, offset |-> offset, sort |-> sort]

\* lines 321-332: the search body; limit and offset after their defaults
searchBody(filter, limit, offset, normalizedSort) ==
  IF Len(normalizedSort) > 0
  THEN [query |-> buildQuery(filter),
        from |-> offset,
        size |-> IF limit = 0 THEN DefaultLimit ELSE limit,
        track_total_hits |-> TRUE,
        sort |-> normalizedSort]
  ELSE [query |-> buildQuery(filter),
        from |-> offset,
        size |-> IF limit = 0 THEN DefaultLimit ELSE limit,
        track_total_hits |-> TRUE]

\* lines 339-343: hits and total of the payload
searchHits(payload) ==
  IF "hits" \in DOMAIN payload /\ "hits" \in DOMAIN payload.hits
  THEN payload.hits.hits ELSE <<>>

\* a total that counts the hits of the page
searchTotal_hitsLength(payload) == Len(searchHits(payload))

searchTotal(payload) ==
  IF "hits" \in DOMAIN payload /\ "total" \in DOMAIN payload.hits
  THEN payload.hits.total.value ELSE Len(searchHits(payload))

searchResult(ctx, payload) ==
  [ctx |-> ctx, hits |-> searchHits(payload), total |-> searchTotal(payload)]

searched(r) == searchResult(r.ctx, Payload(r.result))

search(ctx, options) ==
  searched(Await(ctx,
                 [fn |-> "search",
                  body |-> searchBody(options.filter,
                                      IF options.limit = NoNum THEN DefaultLimit
                                      ELSE options.limit,
                                      IF options.offset = NoNum THEN 0
                                      ELSE options.offset,
                                      normalizeSort(options.sort))],
                 Undef))

found(s) == Ret(s.ctx, "none", wrapAll(s.hits, 1), NoNum)
find(ctx, options) == found(search(ctx, options))

foundAndCounted(s) == Ret(s.ctx, "none", wrapAll(s.hits, 1), s.total)
findAndCount(ctx, options) == foundAndCounted(search(ctx, options))

\* lines 364-368: the Row of a get response, none when found is false
gotBody(ctx, body, filterByTk) ==
  IF "found" \in DOMAIN body /\ body.found = FALSE
  THEN Ret(ctx, "none", <<>>, NoNum)
  ELSE Ret(ctx, "none",
           wrap(IF "_source" \in DOMAIN body
                THEN [_id |-> OrElse(IF "_id" \in DOMAIN body THEN body._id ELSE Undef,
                                     filterByTk),
                      _source |-> body._source]
                ELSE [_id |-> OrElse(IF "_id" \in DOMAIN body THEN body._id ELSE Undef,
                                     filterByTk)]),
           NoNum)

got(r, filterByTk) == gotBody(r.ctx, Payload(r.result), filterByTk)

\* line 371: this.wrap(hits[0])
firstHit(s) ==
  Ret(s.ctx, "none", IF Len(s.hits) > 0 THEN wrap(s.hits[1]) ELSE <<>>, NoNum)

\* a findOne that never takes the identity branch
findOne_searchOnly(ctx, filterByTk, filter, sort) ==
  firstHit(search(ctx, FindOptions(filter, 1, 0, sort)))

\* findOne({ filterByTk, filter, sort })
findOne(ctx, filterByTk, filter, sort) ==
  IF Truthy(filterByTk)
  THEN got(Await(ctx, [fn |-> "get", id |-> filterByTk], Undef), filterByTk)
  ELSE firstHit(search(ctx, FindOptions(filter, 1, 0, sort)))

\* a Row that takes the caller's identity and ignores the backend's
createdBody_callerId(ctx, body, id, rest) ==
  Ret(ctx, "none", wrap([_id |-> id, _source |-> rest]), NoNum)

\* lines 383-384: the Row create returns
createdBody(ctx, body, id, rest) ==
  Ret(ctx, "none",
      wrap([_id |-> OrElse(IF "_id" \in DOMAIN body THEN body._id ELSE Undef, id),
            _source |-> rest]),
      NoNum)

created(r, id, rest) == createdBody(r.ctx, Payload(r.result), id, rest)

\* a create that stores values whole, the identity key included
create_keepsId(ctx, values, auto) ==
  created(Await(ctx, [fn |-> "index", id |-> values[K_id], document |-> values,
                      refresh |-> TRUE], auto),
          values[K_id], values)

\* create({ values }); auto is the identity the backend assigns when it must
create(ctx, values, auto) ==
  created(Await(ctx, [fn |-> "index", id |-> values[K_id], document |-> Rest(values),
                      refresh |-> TRUE], auto),
          values[K_id], Rest(values))

\* for (const id of ids) await this.client.update({ id, doc, refresh: true })
RECURSIVE updateEach(_, _, _, _)
updateEach(ctx, ids, values, i) ==
  IF i > Len(ids) \/ ctx.thrown THEN ctx
  ELSE updateEach(Await(ctx, [fn |-> "update", id |-> ids[i], doc |-> values,
                              refresh |-> TRUE], Undef).ctx,
                  ids, values, i + 1)

\* { id: { $in: ids } }
IdInFilter(ids) ==
  JObj(<<Ent(K_id, JObj(<<Ent(K_in, JArr([i \in 1..Len(ids) |-> JStr(ids[i])]))>>))>>)

\* line 403: targets.map((item) => item.id)
idsOf(rows) == [i \in 1..Len(rows) |-> rows[i][K_id]]

\* a rejected client call leaves the method at once: the error is the caller's
Thrown(ctx) == Ret(ctx, "TransportError", <<>>, NoNum)

\* line 412: the re-read of the rows written
updatedRows(ctx, ids) ==
  IF ctx.thrown THEN Thrown(ctx)
  ELSE find(ctx, FindOptions(IdInFilter(ids), Len(ids), NoNum, JUndef))

\* a bulk update that raises when nothing matched
updateIds_throwsOnEmpty(ctx, ids, values) ==
  IF Len(ids) > 0
  THEN updatedRows(updateEach(ctx, ids, values, 1), ids)
  ELSE Ret(ctx, "NotFound", <<>>, NoNum)

\* lines 404-412: the per-row writes and the re-read
updateIds(ctx, ids, values) ==
  IF Len(ids) > 0
  THEN updatedRows(updateEach(ctx, ids, values, 1), ids)
  ELSE Ret(ctx, "none", <<>>, NoNum)

\* line 399: return this.findOne({ filterByTk })
updatedOne(ctx, filterByTk) ==
  IF ctx.thrown THEN Thrown(ctx) ELSE findOne(ctx, filterByTk, JUndef, JUndef)

updateTargets(targets, values) == updateIds(targets.ctx, idsOf(targets.rows), values)

\* update({ filterByTk, values, filter, limit, offset })
update(ctx, filterByTk, values, filter, limit, offset) ==
  IF ~Truthy(filterByTk) /\ ~JTruthy(filter)
  THEN Ret(ctx, "InvalidArgument", <<>>, NoNum)
  ELSE IF Truthy(filterByTk)
  THEN updatedOne(Await(ctx, [fn |-> "update", id |-> filterByTk, doc |-> values,
                              refresh |-> TRUE], Undef).ctx,
                  filterByTk)
  ELSE updateTargets(find(ctx, FindOptions(filter,
                               IF limit = NoNum \/ limit = 0 THEN BulkLimit ELSE limit,
                               IF offset = NoNum THEN 0 ELSE offset, JUndef)),
                     values)

\* for (const item of targets) await this.client.delete({ id: item.id, refresh: true })
RECURSIVE destroyEach(_, _, _)
destroyEach(ctx, targets, i) ==
  IF i > Len(targets) \/ ctx.thrown THEN ctx
  ELSE destroyEach(Await(ctx, [fn |-> "delete", id |-> targets[i][K_id],
                               refresh |-> TRUE], Undef).ctx,
                   targets, i + 1)

\* lines 426 and 437: return, unless a delete has thrown
destroyed(ctx) == IF ctx.thrown THEN Thrown(ctx) ELSE Ret(ctx, "none", <<>>, NoNum)

destroyTargets(targets) == destroyed(destroyEach(targets.ctx, targets.rows, 1))

\* destroy({ filterByTk, filter, limit, offset })
destroy(ctx, filterByTk, filter, limit, offset) ==
  IF ~Truthy(filterByTk) /\ ~JTruthy(filter)
  THEN Ret(ctx, "InvalidArgument", <<>>, NoNum)
  ELSE IF Truthy(filterByTk)
  THEN destroyed(Await(ctx, [fn |-> "delete", id |-> filterByTk, refresh |-> TRUE],
                       Undef).ctx)
  ELSE destroyTargets(find(ctx, FindOptions(filter,
                                IF limit = NoNum \/ limit = 0 THEN BulkLimit ELSE limit,
                                IF offset = NoNum THEN 0 ELSE offset, JUndef)))

\* lines 446-447: body?.count ?? 0
countedBody(ctx, body) ==
  Ret(ctx, "none", <<>>, IF "count" \in DOMAIN body THEN body.count ELSE 0)

counted(r) == countedBody(r.ctx, Payload(r.result))

\* count({ filter })
count(ctx, filter) ==
  counted(Await(ctx, [fn |-> "count", query |-> buildQuery(filter)], Undef))

\* { ...values } read as a filter: one field-keyed entry per field values holds
ValuesFilter(values) ==
  JObj((IF values[K_id] # Undef THEN <<Ent(K_id, JStr(values[K_id]))>> ELSE <<>>)
       \o (IF values[K_title] # Undef THEN <<Ent(K_title, JStr(values[K_title]))>>
           ELSE <<>>)
       \o (IF values[K_status] # Undef THEN <<Ent(K_status, JStr(values[K_status]))>>
           ELSE <<>>))

\* lines 451 and 459: findOne({ filter: options?.filter || options?.values })
lookup(ctx, filter, values) ==
  findOne(ctx, Undef, IF JTruthy(filter) THEN filter ELSE ValuesFilter(values), JUndef)

\* a firstOrCreate that holds a lock from its lookup to its write: what it
\* creates on is the lookup redone at the time of the write
firstOrCreated_locked(existing, values, auto) ==
  IF Len(lookup(existing.ctx, JUndef, values).rows) > 0
  THEN lookup(existing.ctx, JUndef, values)
  ELSE create(existing.ctx, values, auto)

\* lines 452-455: the found row, else a create
firstOrCreated(existing, values, auto) ==
  IF Len(existing.rows) > 0 THEN existing ELSE create(existing.ctx, values, auto)

firstOrCreate(ctx, filter, values, auto) ==
  firstOrCreated(lookup(ctx, filter, values), values, auto)

\* line 462: return this.findOne({ filterByTk: existing.id })
reread(u, id) == IF u.err # "none" THEN u ELSE findOne(u.ctx, id, JUndef, JUndef)

\* lines 460-464: update the found row by its id and read it back, else a create
updateOrCreated(existing, values, auto) ==
  IF Len(existing.rows) > 0
  THEN reread(update(existing.ctx, existing.rows[1][K_id], values, JUndef, NoNum, NoNum),
              existing.rows[1][K_id])
  ELSE create(existing.ctx, values, auto)

updateOrCreate(ctx, filter, values, auto) ==
  updateOrCreated(lookup(ctx, filter, values), values, auto)

\* add / remove / set / toggle
add(ctx) == Ret(ctx, "UnsupportedOperation", <<>>, NoNum)
remove(ctx) == Ret(ctx, "UnsupportedOperation", <<>>, NoNum)
set(ctx) == Ret(ctx, "UnsupportedOperation", <<>>, NoNum)
toggle_resolves(ctx) == Ret(ctx, "none", <<>>, NoNum)
toggle(ctx) == Ret(ctx, "UnsupportedOperation", <<>>, NoNum)

(***************************************************************************)
(* The state machine: one caller issuing repository operations one after   *)
(* the other against the backend, and the backend's periodic refresh.      *)
(* last is the latest operation with its arguments, its outcome, the       *)
(* requests it issued and the backend as it was when it started; prev is   *)
(* the operation before it.                                                *)
(***************************************************************************)
MaxOps == 2

Src(id, title, status) ==
  [f \in Fields |-> IF f = K_id THEN id ELSE IF f = K_title THEN title ELSE status]

TermFilter(field, val) == JObj(<<Ent(field, JStr(val))>>)

\* the inputs the caller draws from
F_status == TermFilter(K_status, <<"a">>)
By_title_desc == JStr(<<"-", "t", "i", "t", "l", "e">>)
TkInputs == {Undef, Zero, <<"1">>}
FilterInputs == {JUndef, F_status}
ValuesInputs == {Src(Undef, <<"b">>, Undef), Src(Undef, <<"a">>, <<"a">>),
                 Src(<<"2">>, <<"a">>, <<"a">>), Src(Zero, <<"a">>, Undef)}
PatchInputs == {Src(Undef, <<"b">>, Undef), Src(<<"2">>, Undef, <<"b">>)}
PageInputs == {<<NoNum, NoNum>>, <<0, NoNum>>, <<1, NoNum>>, <<1, 1>>}
F_status_b == TermFilter(K_status, <<"b">>)
FaultInputs == {NoFault, [at |-> 1, kind |-> "reject"], [at |-> 2, kind |-> "reject"],
                [at |-> 1, kind |-> "status"]}

\* the documents the backend may hold at the start
InitSources == [i \in {<<"1">>, <<"2">>} |->
                  IF i = <<"1">> THEN Src(Undef, <<"a">>, <<"a">>)
                  ELSE Src(Undef, <<"b">>, <<"a">>)]
InitDocs == {[i \in S |-> InitSources[i]] : S \in {{}, {<<"1">>, <<"2">>}}}

\* the identities the backend may assign to a non-addressed insert
AutoIds(d) == {<<"2">>, <<"7">>} \ DOMAIN d

Args(filterByTk, filter, values, limit, offset, sort) ==
  [filterByTk |-> filterByTk, filter |-> filter, values |-> values,
   limit |-> limit, offset |-> offset, sort |-> sort]

FindInputs ==
  {Args(Undef, F_status, EmptySource, p[1], p[2], JUndef) : p \in PageInputs}
  \cup {Args(Undef, JUndef, EmptySource, NoNum, NoNum, s) : s \in {JUndef, By_title_desc}}

FindAndCountInputs ==
  {Args(Undef, F_status, EmptySource, p[1], p[2], JUndef) :
     p \in {<<NoNum, NoNum>>, <<1, 1>>}}
  \cup {Args(Undef, JUndef, EmptySource, 1, NoNum, JUndef)}

\* by identity; with no selector; by filter, capped or not
UpdateInputs ==
  {Args(<<"1">>, JUndef, v, NoNum, NoNum, JUndef) : v \in PatchInputs}
  \cup {Args(k, F_status, Src(Undef, <<"b">>, Undef), NoNum, NoNum, JUndef) :
          k \in {Zero, <<"1">>}}
  \cup {Args(k, JUndef, Src(Undef, <<"b">>, Undef), NoNum, NoNum, JUndef) :
          k \in {Undef, Zero}}
  \cup {Args(Undef, f, v, NoNum, NoNum, JUndef) :
          f \in {JObj(<<>>), F_status}, v \in PatchInputs}
  \cup {Args(Undef, F_status, Src(Undef, <<"b">>, Undef), l, NoNum, JUndef) :
          l \in {0, 1}}

\* firstOrCreate / updateOrCreate: with a filter, and with the values as the filter
OrCreateInputs ==
  {Args(Undef, f, Src(Undef, <<"b">>, <<"a">>), NoNum, NoNum, JUndef) :
     f \in {JUndef, F_status, F_status_b}}

DestroyInputs ==
  {Args(k, JUndef, EmptySource, NoNum, NoNum, JUndef) : k \in {Undef, Zero, <<"1">>}}
  \cup {Args(<<"1">>, F_status, EmptySource, NoNum, NoNum, JUndef)}
  \cup {Args(Undef, f, EmptySource, NoNum, NoNum, JUndef) : f \in {JObj(<<>>), F_status}}
  \cup {Args(Undef, F_status, EmptySource, 1, NoNum, JUndef)}

\* the write failures tried with a call: any of them for a bulk call over
\* F_status with no limit, none otherwise
FaultsFor(a) ==
  IF a.filterByTk = Undef /\ a.filter = F_status /\ a.limit = NoNum
     /\ a.values \in {EmptySource, Src(Undef, <<"b">>, Undef)}
  THEN FaultInputs ELSE {NoFault}

NoArgs == Args(Undef, JUndef, EmptySource, NoNum, NoNum, JUndef)

NoCall == [op |-> "none", args |-> NoArgs, err |-> "none"]

\* no operation yet on the documents d
NoLast(d) ==
  [op |-> "none", args |-> NoArgs, err |-> "none", rows |-> <<>>,
   total |-> NoNum, calls |-> <<>>, wire |-> <<>>, ats |-> <<>>,
   fault |-> NoFault, pre |-> [docs |-> d, visible |-> d]]

\* no concurrent callers; no schema sync pass yet
NoCallers == <<>>
NoSync ==
  [n |-> 0, local |-> <<>>, fetch |-> "ok", remote |-> <<>>, err |-> "none",
   accept |-> TRUE, calls |-> <<>>, defs |-> <<>>, pre |-> [registry |-> <<>>, indices |-> <<>>],
   before |-> [n |-> 0, local |-> <<>>, fetch |-> "ok", remote |-> <<>>, err |-> "none"]]

Init ==
  /\ client \in {"http", "injected"}
  /\ docs \in InitDocs
  /\ visible = docs
  /\ last = NoLast(docs)
  /\ prev = NoCall
  /\ nops = 0
  /\ callers = NoCallers
  /\ indices = <<>>
  /\ registry = <<>>
  /\ synced = NoSync

\* the operation op(args) has run to its return (or its throw) as r
Return(op, args, r) ==
  /\ nops < MaxOps
  /\ docs' = r.ctx.docs
  /\ visible' = r.ctx.visible
  /\ last' = [op |-> op, args |-> args, err |-> r.err, rows |-> r.rows,
              total |-> r.total, calls |-> r.ctx.calls, wire |-> r.ctx.wire,
              ats |-> r.ctx.ats, fault |-> r.ctx.fault,
              pre |-> [docs |-> docs, visible |-> visible]]
  /\ prev' = [op |-> last.op, args |-> last.args, err |-> last.err]
  /\ nops' = nops + 1
  /\ UNCHANGED <<client, callers, indices, registry, synced>>

Find ==
  \E a \in FindInputs :
    Return("find", a,
           find(Ctx(docs, visible), FindOptions(a.filter, a.limit, a.offset, a.sort)))

FindAndCount ==
  \E a \in FindAndCountInputs :
    Return("findAndCount", a,
           findAndCount(Ctx(docs, visible),
                        FindOptions(a.filter, a.limit, a.offset, a.sort)))

FindOne ==
  \E k \in TkInputs, f \in FilterInputs :
    Return("findOne", Args(k, f, EmptySource, NoNum, NoNum, JUndef),
           findOne(Ctx(docs, visible), k, f, JUndef))

Count ==
  \E f \in FilterInputs :
    Return("count", Args(Undef, f, EmptySource, NoNum, NoNum, JUndef),
           count(Ctx(docs, visible), f))

Create ==
  \E v \in ValuesInputs, auto \in AutoIds(docs) :
    Return("create", Args(Undef, JUndef, v, NoNum, NoNum, JUndef),
           create(Ctx(docs, visible), v, auto))

Update ==
  \E a \in UpdateInputs : \E fault \in FaultsFor(a) :
    Return("update", a,
           update(FaultyCtx(docs, visible, fault), a.filterByTk, a.values, a.filter,
                  a.limit, a.offset))

Destroy ==
  \E a \in DestroyInputs : \E fault \in FaultsFor(a) :
    Return("destroy", a,
           destroy(FaultyCtx(docs, visible, fault), a.filterByTk, a.filter, a.limit,
                   a.offset))

FirstOrCreate ==
  \E a \in OrCreateInputs, auto \in AutoIds(docs) :
    Return("firstOrCreate", a, firstOrCreate(Ctx(docs, visible), a.filter, a.values, auto))

UpdateOrCreate ==
  \E a \in OrCreateInputs, auto \in AutoIds(docs) :
    Return("updateOrCreate", a,
           updateOrCreate(Ctx(docs, visible), a.filter, a.values, auto))

Add == Return("add", NoArgs, add(Ctx(docs, visible)))
Remove == Return("remove", NoArgs, remove(Ctx(docs, visible)))
Set == Return("set", NoArgs, set(Ctx(docs, visible)))
Toggle == Return("toggle", NoArgs, toggle(Ctx(docs, visible)))

\* the backend's periodic refresh makes every write searchable
Refresh ==
  /\ visible # docs
  /\ visible' = docs
  /\ UNCHANGED <<client, docs, last, prev, nops, callers, indices, registry, synced>>

Next ==
  \/ Find
  \/ FindAndCount
  \/ FindOne
  \/ Count
  \/ Create
  \/ Update
  \/ Destroy
  \/ FirstOrCreate
  \/ UpdateOrCreate
  \/ Add
  \/ Remove
  \/ Set
  \/ Toggle
  \/ Refresh

Spec == Init /\ [][Next]_vars

(***************************************************************************)
(* Two concurrent callers of firstOrCreate / updateOrCreate with the same  *)
(* filter and values.  Every await of the method is a step: the lookup,    *)
(* the write (create, or the update of the found row), and for             *)
(* updateOrCreate on a found row the two reads that follow.  Between the   *)
(* steps of one caller the other caller may take any of its own.           *)
(***************************************************************************)
RaceFilter == F_status
RaceValues == Src(Undef, <<"b">>, <<"a">>)

\* the collection at the start holds no document matching RaceFilter
RaceDocs == {[i \in S |-> Src(Undef, <<"a">>, <<"b">>)] : S \in {{}, {<<"1">>}}}

Caller(op) ==
  [op |-> op, pc |-> "lookup", existing |-> <<>>, rows |-> <<>>, created |-> Undef]

\* where the first write of a run landed (Undef when it wrote nothing)
IsId(at) == at # Undef
WroteAt(ctx) ==
  IF SelectSeq(ctx.ats, IsId) = <<>> THEN Undef ELSE SelectSeq(ctx.ats, IsId)[1]

RaceInit ==
  /\ client \in {"http", "injected"}
  /\ docs \in RaceDocs
  /\ visible = docs
  /\ callers \in [{1, 2} -> {Caller(op) : op \in {"firstOrCreate", "updateOrCreate"}}]
  /\ last = NoLast(docs)
  /\ prev = NoCall
  /\ nops = 0
  /\ indices = <<>>
  /\ registry = <<>>
  /\ synced = NoSync

\* the backend after the run ctx of caller p's step, and caller p after it
Stepped(p, ctx, c) ==
  /\ docs' = ctx.docs
  /\ visible' = ctx.visible
  /\ callers' = [callers EXCEPT ![p] = c]
  /\ UNCHANGED <<client, last, prev, nops, indices, registry, synced>>

\* lines 451 / 459: const existing = await this.findOne(...)
LookedUp(p, r) ==
  Stepped(p, r.ctx, [callers[p] EXCEPT !.pc = "write", !.existing = r.rows])

Lookup(p) ==
  /\ callers[p].pc = "lookup"
  /\ LookedUp(p, lookup(Ctx(docs, visible), RaceFilter, RaceValues))

\* the lookup's result carried to the time of the write
Existing(p) == Ret(Ctx(docs, visible), "none", callers[p].existing, NoNum)

\* the method returned r
Returned(p, r) ==
  Stepped(p, r.ctx, [callers[p] EXCEPT !.pc = "done", !.rows = r.rows,
                                       !.created = WroteAt(r.ctx)])

\* line 461, inside update (393-398): await this.client.update(...)
UpdatedFound(p, r) == Stepped(p, r.ctx, [callers[p] EXCEPT !.pc = "reread"])

\* lines 452-455 / 460-464: return the found row or create; update the found row
Write(p) ==
  /\ callers[p].pc = "write"
  /\ \E auto \in AutoIds(docs) :
       IF callers[p].op = "firstOrCreate"
       THEN Returned(p, firstOrCreated(Existing(p), RaceValues, auto))
       ELSE IF callers[p].existing = <<>>
       THEN Returned(p, create(Ctx(docs, visible), RaceValues, auto))
       ELSE UpdatedFound(p, Await(Ctx(docs, visible),
                                  [fn |-> "update", id |-> callers[p].existing[1][K_id],
                                   doc |-> RaceValues, refresh |-> TRUE], Undef))

\* line 399, inside update: return this.findOne({ filterByTk })
Reread(p) ==
  /\ callers[p].pc = "reread"
  /\ Stepped(p, findOne(Ctx(docs, visible), callers[p].existing[1][K_id], JUndef,
                        JUndef).ctx,
             [callers[p] EXCEPT !.pc = "return"])

\* line 462: return this.findOne({ filterByTk: existing.id })
Finish(p) ==
  /\ callers[p].pc = "return"
  /\ Returned(p, findOne(Ctx(docs, visible), callers[p].existing[1][K_id], JUndef,
                         JUndef))

RaceNext ==
  \/ \E p \in {1, 2} : Lookup(p)
  \/ \E p \in {1, 2} : Write(p)
  \/ \E p \in {1, 2} : Reread(p)
  \/ \E p \in {1, 2} : Finish(p)
  \/ Refresh

RaceSpec == RaceInit /\ [][RaceNext]_vars

(***************************************************************************)
(* ElasticsearchCollectionManager: schema sync.  The backend's indices are *)
(* a sequence of [name, properties], properties a sequence of [name, type] *)
(* in Object.entries order; a field is [name, type, interface, primaryKey, *)
(* rawType] with "" for an attribute it does not have; localData is a      *)
(* sequence of [name, fields]; the registry is a sequence of collection    *)
(* definitions [name, fields].                                             *)
(***************************************************************************)
N_posts == <<"p", "o", "s", "t", "s">>
N_logs == <<"l", "o", "g", "s">>
N_sys == <<".", "s", "y", "s">>
K_level == <<"l", "e", "v", "e", "l">>
K_note == <<"n", "o", "t", "e">>
K_geo == <<"g", "e", "o">>
K_error == <<"e", "r", "r", "o", "r">>
K_body == <<"b", "o", "d", "y">>

Field(name, type, interface, primaryKey, rawType) ==
  [name |-> name, type |-> type, interface |-> interface, primaryKey |-> primaryKey,
   rawType |-> rawType]
Prop(name, type) == [name |-> name, type |-> type]
Index(name, properties) == [name |-> name, properties |-> properties]
LocalCollection(name, fields) == [name |-> name, fields |-> fields]

DEFAULT_FIELD_MAP ==
  [t \in {"string", "json", "boolean", "integer", "bigInt", "float", "double", "date",
          "datetime"} |->
     CASE t = "string" -> "text"
       [] t = "json" -> "object"
       [] t = "bigInt" -> "long"
       [] t = "datetime" -> "date"
       [] OTHER -> t]

\* a mapping type that takes the table and the default but not the raw type
getEsType_ignoresRawType(field) ==
  IF field.type \in DOMAIN DEFAULT_FIELD_MAP THEN DEFAULT_FIELD_MAP[field.type]
  ELSE "text"

getEsType(field) ==
  IF field.rawType # "" THEN field.rawType
  ELSE IF field.type \in DOMAIN DEFAULT_FIELD_MAP THEN DEFAULT_FIELD_MAP[field.type]
  ELSE "text"

\* the names of a sequence of named items, and whether it holds a name
Names(items) == [i \in 1..Len(items) |-> items[i].name]
HasName(items, name) == \E i \in 1..Len(items) : items[i].name = name

\* the last item of that name: Map.get after new Map(entries), obj[name]
GetByName(items, name) ==
  items[CHOOSE i \in 1..Len(items) :
          items[i].name = name /\ \A j \in (i + 1)..Len(items) : items[j].name # name]

\* carry[name] = value, Map.set(name, value): in place when the key is there
SetByName(items, item) ==
  IF HasName(items, item.name)
  THEN [i \in 1..Len(items) |-> IF items[i].name = item.name THEN item ELSE items[i]]
  ELSE Append(items, item)

RECURSIVE SetAll(_, _, _)
SetAll(items, news, i) ==
  IF i > Len(news) THEN items ELSE SetAll(SetByName(items, news[i]), news, i + 1)

\* fields.reduce(...): the mapping properties of the fields but 'id'
RECURSIVE buildProperties(_, _, _)
buildProperties(fields, i, carry) ==
  IF i > Len(fields) THEN carry
  ELSE IF fields[i].name = K_id THEN buildProperties(fields, i + 1, carry)
  ELSE buildProperties(fields, i + 1,
                       SetByName(carry, Prop(fields[i].name, getEsType(fields[i]))))

\* a merge in which the remote property wins over the local field
MappedField_remoteWins(prop, local) ==
  Field(prop.name, IF prop.type # "" THEN prop.type ELSE "string", "input", FALSE, "")

\* lines 68-78: the field of one remote property
MappedField(prop, local) ==
  IF HasName(local, prop.name)
  THEN [GetByName(local, prop.name) EXCEPT
          !.interface = IF @ = "" THEN "input" ELSE @]
  ELSE Field(prop.name, IF prop.type # "" THEN prop.type ELSE "string", "input",
             FALSE, "")

\* lines 82-87: the synthesized identity field
IdField == Field(K_id, "string", "input", TRUE, "")

createFieldsFromMapping(properties, local) ==
  (IF HasName(local, K_id) THEN <<>> ELSE <<IdField>>)
  \o [i \in 1..Len(properties) |-> MappedField(properties[i], local)]

filterSystemIndex(name) == ~startsWith(name, ".")

\* the collection registry of the base CollectionManager: definitions by name,
\* each an ordered set of fields by name
hasCollection(reg, name) == HasName(reg, name)
defineCollection(reg, options) ==
  Append(reg, [name |-> options.name, fields |-> SetAll(<<>>, options.fields, 1)])
extendCollection(reg, options) ==
  [i \in 1..Len(reg) |->
     IF reg[i].name = options.name
     THEN [reg[i] EXCEPT !.fields = SetAll(@, options.fields, 1)]
     ELSE reg[i]]

\* a registration that defines whether or not the collection is known
register_alwaysDefines(reg, options) == defineCollection(reg, options)

\* a registration that replaces the definition of a known collection
register_replaces(reg, options) ==
  [i \in 1..Len(reg) |->
     IF reg[i].name = options.name
     THEN [name |-> options.name, fields |-> SetAll(<<>>, options.fields, 1)]
     ELSE reg[i]]
  \o (IF hasCollection(reg, options.name) THEN <<>>
      ELSE <<[name |-> options.name, fields |-> SetAll(<<>>, options.fields, 1)]>>)

\* lines 142-146
register(reg, options) ==
  IF hasCollection(reg, options.name) THEN extendCollection(reg, options)
  ELSE defineCollection(reg, options)

\* the run of one sync pass: the registry, the backend's indices, the
\* client.indices calls made, the definitions handed to the registry, the
\* error thrown, and whether the backend accepts a create-index request
SyncRun(reg, idx, calls, defs, err, accept) ==
  [registry |-> reg, indices |-> idx, calls |-> calls, defs |-> defs, err |-> err,
   accept |-> accept]

\* lines 99-109: create the index with the properties of the local fields.
\* A refused request raises under the injected client alone: the HTTP client
\* returns the error status, which nothing reads.
createIndex(run, name, properties) ==
  SyncRun(run.registry,
          IF run.accept THEN Append(run.indices, Index(name, properties)) ELSE run.indices,
          run.calls \o <<[fn |-> "exists", index |-> name],
                          [fn |-> "create", index |-> name, properties |-> properties]>>,
          run.defs,
          IF ~run.accept /\ client = "injected" THEN "ResponseError" ELSE run.err,
          run.accept)

ensureIndex(run, name, fields) ==
  IF HasName(run.indices, name)
  THEN [run EXCEPT !.calls = Append(@, [fn |-> "exists", index |-> name])]
  ELSE createIndex(run, name, buildProperties(fields, 1, <<>>))

\* lines 132-146: the definition of one collection, registered
defined(run, options) ==
  IF run.err # "none" THEN run
  ELSE SyncRun(register(run.registry, options), run.indices, run.calls,
               Append(run.defs, options), run.err, run.accept)

\* lines 124-126: localData?.[name]?.fields || [], mappings?.[name]?.mappings?.properties || {}
LocalFields(localData, name) ==
  IF HasName(localData, name) THEN GetByName(localData, name).fields ELSE <<>>
EsMapping(mappings, name) ==
  IF HasName(mappings, name) THEN GetByName(mappings, name).properties ELSE <<>>

\* the body of the loop over allNames (lines 123-147)
syncName(run, name, mappings, remoteNames, localData) ==
  defined(IF includes(remoteNames, name) THEN run
          ELSE ensureIndex(run, name, LocalFields(localData, name)),
          [name |-> name,
           fields |-> createFieldsFromMapping(EsMapping(mappings, name),
                                              LocalFields(localData, name))])

RECURSIVE syncNames(_, _, _, _, _, _)
syncNames(run, allNames, i, mappings, remoteNames, localData) ==
  IF i > Len(allNames) \/ run.err # "none" THEN run
  ELSE syncNames(syncName(run, allNames[i], mappings, remoteNames, localData),
                 allNames, i + 1, mappings, remoteNames, localData)

\* Object.keys(mappings).filter(this.filterSystemIndex)
RemoteNames(mappings) == SelectSeq(Names(mappings), filterSystemIndex)

\* Array.from(new Set([...remoteNames, ...localNames]))
RECURSIVE Distinct(_, _, _)
Distinct(names, i, acc) ==
  IF i > Len(names) THEN acc
  ELSE Distinct(names, i + 1, IF includes(acc, names[i]) THEN acc ELSE Append(acc, names[i]))

\* fetchRemoteMappings: mappings?.body || mappings || {}.  fetch is how the
\* GET /_mapping went: "ok"; "reject", the request never completes;
\* "error_json" / "error_empty", an HTTP error status with a JSON error body or
\* with no body.  The HTTP client returns { status, body } for every status:
\* the payload is then the error body, or with no body the envelope itself.
fetchRemoteMappings(idx, fetch) ==
  CASE fetch = "ok" -> [thrown |-> FALSE, payload |-> idx]
    [] fetch = "reject" \/ client = "injected" -> [thrown |-> TRUE, payload |-> <<>>]
    [] fetch = "error_json" ->
         [thrown |-> FALSE, payload |-> <<Index(K_error, <<>>), Index(K_status, <<>>)>>]
    [] OTHER ->
         [thrown |-> FALSE, payload |-> <<Index(K_status, <<>>), Index(K_body, <<>>)>>]

\* lines 118-147, after the fetch
synced_from(run, m, localData) ==
  IF m.thrown THEN [run EXCEPT !.err = "TransportError"]
  ELSE syncNames(run, Distinct(RemoteNames(m.payload) \o Names(localData), 1, <<>>), 1,
                 m.payload, RemoteNames(m.payload), localData)

syncFromRemote(reg, idx, localData, fetch, accept) ==
  synced_from(SyncRun(reg, idx, <<[fn |-> "getMapping"]>>, <<>>, "none", accept),
              fetchRemoteMappings(idx, fetch), localData)

\* the inputs of a sync pass
MaxSyncs == 2

L_title == Field(K_title, "string", "input", FALSE, "")
RemoteInputs ==
  {<<>>,
   <<Index(N_posts, <<Prop(K_title, "text")>>)>>,
   <<Index(N_sys, <<>>), Index(N_posts, <<Prop(K_id, "keyword"), Prop(K_title, "text")>>)>>}
LocalInputs ==
  {<<>>,
   <<LocalCollection(N_posts, <<L_title>>)>>,
   <<LocalCollection(N_posts, <<Field(K_id, "string", "", TRUE, ""),
                                Field(K_title, "string", "", FALSE, "keyword")>>)>>,
   <<LocalCollection(N_logs, <<Field(K_id, "string", "input", TRUE, ""),
                               Field(K_level, "integer", "input", FALSE, ""),
                               Field(K_note, "", "input", FALSE, "keyword"),
                               Field(K_geo, "point", "input", FALSE, "")>>)>>}
FetchInputs == {"ok", "reject", "error_json", "error_empty"}

SyncInit ==
  /\ client \in {"http", "injected"}
  /\ docs = <<>>
  /\ visible = docs
  /\ last = NoLast(docs)
  /\ prev = NoCall
  /\ nops = 0
  /\ callers = NoCallers
  /\ indices \in RemoteInputs
  /\ registry = <<>>
  /\ synced = NoSync

\* the pass ran to its return (or its throw) as r
Synced(localData, fetch, r) ==
  /\ registry' = r.registry
  /\ indices' = r.indices
  /\ synced' = [n |-> synced.n + 1, local |-> localData, fetch |-> fetch,
                remote |-> indices, err |-> r.err, accept |-> r.accept,
                calls |-> r.calls, defs |-> r.defs,
                pre |-> [registry |-> registry, indices |-> indices],
                before |-> [n |-> synced.n, local |-> synced.local,
                            fetch |-> synced.fetch, remote |-> synced.remote,
                            err |-> synced.err]]
  /\ UNCHANGED <<client, docs, visible, last, prev, nops, callers>>

\* ElasticsearchDataSource.load({ localData })
Sync ==
  /\ synced.n < MaxSyncs
  /\ \E localData \in LocalInputs, fetch \in FetchInputs :
       \E accept \in BOOLEAN :
         Synced(localData, fetch,
                syncFromRemote(registry, indices, localData, fetch, accept))

SyncNext == Sync

SyncSpec == SyncInit /\ [][SyncNext]_vars

(***************************************************************************)
(* The functions of the plugin that read no state, applied to inputs drawn *)
(* from bounded sets: last is the latest application [op, input, output],  *)
(* prev the one before it.  The data source options are a function from    *)
(* the keys they have to strings.                                          *)
(***************************************************************************)
\* const { password, client, ...rest } = this.options || {}; return rest
publicOptions(options) ==
  [k \in DOMAIN options \ {"password", "client"} |-> options[k]]

\* ElasticsearchDataSourceOptions with the optional keys that are given
Options(username, password, injected) ==
  [k \in {"name", "host"}
          \cup (IF username # "" THEN {"username"} ELSE {})
          \cup (IF password # "" THEN {"password"} ELSE {})
          \cup (IF injected # "" THEN {"client"} ELSE {}) |->
     CASE k = "name" -> "es"
       [] k = "host" -> "http://localhost:9200"
       [] k = "username" -> username
       [] k = "password" -> password
       [] OTHER -> injected]

OptionInputs ==
  {Options(u, p, c) : u \in {"", "elastic", "admin"}, p \in {"", "changeme", "s3cret"},
                      c \in {"", "mock"}}

NoApply == [op |-> "none", input |-> <<>>, output |-> <<>>]


PureInit ==
  /\ client = "http"
  /\ docs = <<>>
  /\ visible = docs
  /\ last = NoApply
  /\ prev = NoApply
  /\ nops = 0
  /\ callers = NoCallers
  /\ indices = <<>>
  /\ registry = <<>>
  /\ synced = NoSync

\* the application of op to input, with what it returned
Application(op, input, output) == [op |-> op, input |-> input, output |-> output]

\* the latest application becomes the one before; nothing else changes
Shifted ==
  /\ prev' = last
  /\ UNCHANGED <<client, docs, visible, nops, callers, indices, registry, synced>>

PublicOptions ==
  /\ \E options \in OptionInputs :
       last' = Application("publicOptions", options, publicOptions(options))
  /\ Shifted

\* the filters compiled: absent, lists, field-keyed objects, operator objects,
\* $and / $or and their siblings
V_a == JStr(<<"a">>)
V_b == JStr(<<"b">>)
V_c == JStr(<<"c">>)
F_title == TermFilter(K_title, <<"a">>)
OpFilter(field, ops) == JObj(<<Ent(field, JObj(ops))>>)
RangeFilters ==
  {OpFilter(K_title, <<Ent(K_gt, V_a)>>),
   OpFilter(K_title, <<Ent(K_gte, V_a), Ent(K_lte, V_b)>>),
   OpFilter(K_title, <<Ent(K_lte, V_b), Ent(K_gte, V_a)>>),
   OpFilter(K_title, <<Ent(K_gt, V_a), Ent(K_gte, V_a), Ent(K_lt, V_c), Ent(K_lte, V_c)>>),
   OpFilter(K_title, <<Ent(K_gte, V_a), Ent(K_in, JArr(<<V_a, V_b>>)), Ent(K_lt, V_c)>>),
   OpFilter(K_title, <<Ent(K_gte, V_a), Ent(K_ne, V_b), Ent(K_lt, V_c)>>),
   JObj(<<Ent(K_title, JObj(<<Ent(K_gte, V_a), Ent(K_lt, V_c)>>)),
          Ent(K_status, JObj(<<Ent(K_lte, V_b)>>))>>)}
FieldFilters ==
  {JObj(<<>>), F_status, F_title,
   JObj(<<Ent(K_title, V_a), Ent(K_status, V_b)>>),
   JObj(<<Ent(K_status, V_b), Ent(K_title, V_a)>>),
   JObj(<<Ent(K_title, JObj(<<>>))>>),
   JObj(<<Ent(<<"$", "x">>, V_a)>>),
   OpFilter(K_status, <<Ent(K_ne, V_a)>>),
   OpFilter(K_title, <<Ent(K_like, JStr(<<"a", "%">>)), Ent(K_contains, V_b)>>),
   JObj(<<Ent(K_title, JObj(<<Ent(K_ne, V_a)>>)), Ent(K_status, V_b)>>)}
LogicFilters ==
  {JArr(<<F_status, F_title>>),
   JArr(<<F_title, F_status>>),
   JArr(<<JObj(<<>>)>>),
   JObj(<<Ent(K_and, JArr(<<F_status, F_title>>))>>),
   JObj(<<Ent(K_and, JArr(<<>>))>>),
   JObj(<<Ent(K_or, JArr(<<F_status, F_title>>))>>),
   JObj(<<Ent(K_or, JArr(<<F_title, F_status>>))>>),
   JObj(<<Ent(K_or, JArr(<<F_status_b>>))>>),
   JObj(<<Ent(K_or, JArr(<<JObj(<<Ent(K_and, JArr(<<F_status, F_title>>))>>),
                           F_status_b>>))>>)}
SiblingFilters ==
  {JObj(<<Ent(K_and, JArr(<<F_status>>)), Ent(K_or, JArr(<<F_title>>))>>),
   JObj(<<Ent(K_and, JArr(<<F_status>>)), Ent(K_title, V_a)>>),
   JObj(<<Ent(K_title, V_a), Ent(K_and, JArr(<<F_status>>))>>),
   JObj(<<Ent(K_or, JArr(<<F_status>>)), Ent(K_and, JArr(<<F_title>>)),
          Ent(K_title, V_b)>>),
   JObj(<<Ent(K_or, JArr(<<F_status, F_status_b>>)), Ent(K_title, V_a)>>),
   JObj(<<Ent(K_title, V_a), Ent(K_or, JArr(<<F_status>>))>>)}
QueryInputs ==
  {JUndef, JStr(<<>>), JArr(<<>>)}
  \cup FieldFilters \cup RangeFilters \cup LogicFilters \cup SiblingFilters

BuildQuery ==
  /\ \E filter \in QueryInputs :
       last' = Application("buildQuery", filter, buildQuery(filter))
  /\ Shifted

\* the sorts normalised: absent, strings, arrays of tokens and of entries,
\* and values that are neither
T_a == <<"a">>
T_b == <<"b">>
SortInputs ==
  {JUndef, JStr(<<>>), JStr(<<" ">>), JStr(T_a), By_title_desc,
   JStr(<<"-", "a", ",", "b">>),
   JStr(<<"a", ",", " ", "-", "b">>),
   JStr(<<"a", ",", ",", "b">>),
   JStr(<<",">>),
   JStr(<<"-">>),
   JArr(<<>>),
   JArr(<<JStr(<<"-", "a">>), JStr(T_b)>>),
   JArr(<<JStr(T_b), JStr(<<"-", "a">>)>>),
   JArr(<<SortEntry(T_a, S_desc), JStr(<<"-", "b">>)>>),
   JArr(<<JObj(<<Ent(T_a, JStr(S_desc))>>)>>),
   JArr(<<JStr(<<>>)>>),
   JObj(<<>>),
   SortEntry(T_a, S_desc)}

NormalizeSort ==
  /\ \E sort \in SortInputs :
       last' = Application("normalizeSort", sort, normalizeSort(sort))
  /\ Shifted

PureNext ==
  \/ PublicOptions
  \/ BuildQuery
  \/ NormalizeSort

PureSpec == PureInit /\ [][PureNext]_vars

(***************************************************************************)
(* Properties                                                              *)
(***************************************************************************)
IsWriteReq(req) == req.api = "_update" \/ (req.api = "_doc" /\ req.method # "GET")
Supplied(a) == a.filterByTk # Undef \/ a.filter # JUndef

\* the caller updated an existing document by identity and then read it back
\* by the same identity
UpdateThenFindOne ==
  /\ prev.op = "update" /\ prev.err = "none"
  /\ prev.args.filterByTk # Undef /\ prev.args.filter = JUndef
  /\ last.op = "findOne" /\ last.args.filterByTk = prev.args.filterByTk
  /\ ToStr(prev.args.filterByTk) \in DOMAIN last.pre.docs

\* C1: read-after-write by identity: after update({filterByTk: k, values: v}) on
\* an existing document has returned, the next findOne({filterByTk: k}) returns a
\* Row in which every key of v holds v's value
C1_ReadAfterWrite ==
  UpdateThenFindOne =>
    /\ Len(last.rows) = 1
    /\ \A f \in Fields :
         prev.args.values[f] # Undef => last.rows[1][f] = prev.args.values[f]

C1_Witness ==
  /\ UpdateThenFindOne
  /\ Len(last.rows) = 1
  /\ prev.args.values[K_title] = <<"b">>
  /\ last.pre.docs[<<"1">>][K_title] = <<"b">>
  /\ last.rows[1][K_title] = <<"b">>

\* C2: destroy-then-count: after destroy({filter: f}) has returned without error,
\* the next count({filter: f}) returns 0
C2_DestroyThenCount ==
  (/\ prev.op = "destroy" /\ prev.err = "none"
   /\ prev.args.filterByTk = Undef /\ prev.args.limit = NoNum
   /\ last.op = "count" /\ last.args.filter = prev.args.filter)
  => last.total = 0

\* C3: every write request of create, update and destroy carries the
\* immediate-visibility hint, the backend receives it, and so every write is
\* searchable when the operation returns
C3_WritesCarryHint ==
  last.op \in {"create", "update", "destroy"} =>
    /\ \A i \in 1..Len(last.calls) :
         IsWriteCall(last.calls[i]) => last.calls[i].refresh = TRUE
    /\ \A i \in 1..Len(last.wire) :
         IsWriteReq(last.wire[i]) => last.wire[i].refresh = TRUE
    /\ ((\E i \in 1..Len(last.ats) : last.ats[i] # Undef) => visible = docs)

C5_CreateRow ==
  last.op = "create" =>
    /\ Len(last.rows) = 1
    /\ last.ats[1] \in DOMAIN docs
    /\ last.rows[1][K_id] = last.ats[1]
    /\ docs[last.ats[1]][K_id] = Undef
    /\ \A f \in Fields \ {K_id} : last.rows[1][f] = docs[last.ats[1]][f]
    /\ (last.wire[1].method = "PUT" => last.ats[1] = ToStr(last.args.values[K_id]))
    /\ (last.wire[1].method = "POST" => last.ats[1] \notin DOMAIN last.pre.docs)

C5_Witness ==
  /\ last.op = "create"
  /\ last.args.values[K_id] = Undef
  /\ last.wire[1].method = "POST"
  /\ last.rows[1][K_id] = <<"7">>
  /\ docs[<<"7">>][K_title] = <<"b">>

\* C6: update and destroy with neither selector fail with InvalidArgument before
\* any backend request and change nothing; with a selector supplied they do not
\* fail with that error
C6_SelectorRequired ==
  last.op \in {"update", "destroy"} =>
    /\ (~Supplied(last.args) =>
          /\ last.err = "InvalidArgument"
          /\ last.calls = <<>> /\ last.wire = <<>>
          /\ docs = last.pre.docs /\ visible \in {last.pre.visible, docs})
    /\ (Supplied(last.args) => last.err # "InvalidArgument")

\* C7: add, remove, set and toggle always fail with UnsupportedOperation and
\* issue no backend request
C7_RelationsUnsupported ==
  last.op \in {"add", "remove", "set", "toggle"} =>
    /\ last.err = "UnsupportedOperation"
    /\ last.calls = <<>> /\ last.wire = <<>>
    /\ docs = last.pre.docs /\ visible \in {last.pre.visible, docs}

C7_Witness ==
  /\ last.op = "toggle" /\ prev.op = "add"
  /\ last.err = "UnsupportedOperation" /\ prev.err = "UnsupportedOperation"
  /\ DOMAIN docs # {}

\* C8: findOne given a filterByTk issues a direct identity get and never a search,
\* for every identity value; when no document has that identity it returns none
\* and raises no error
C8_FindOneByIdentity ==
  (last.op = "findOne" /\ last.args.filterByTk # Undef) =>
    /\ Len(last.calls) = 1
    /\ last.calls[1].fn = "get"
    /\ last.calls[1].id = last.args.filterByTk
    /\ last.err = "none"
    /\ (ToStr(last.args.filterByTk) \notin DOMAIN last.pre.docs => last.rows = <<>>)

\* the limit and the offset find works with when the caller passes none
LimitOr50(a) == IF a.limit = NoNum THEN 50 ELSE a.limit
OffsetOr0(a) == IF a.offset = NoNum THEN 0 ELSE a.offset

\* C9: find returns at most limit rows, taken after skipping offset matches, for
\* every limit and offset the caller passes (limit 50 and offset 0 when absent)
C9_FindPage ==
  (last.op = "find" /\ last.args.sort = JUndef) =>
    LET all == MatchIds(buildQuery(last.args.filter), last.pre.visible, 1)
        page == Page(all, OffsetOr0(last.args), LimitOr50(last.args))
    IN /\ Len(last.rows) <= LimitOr50(last.args)
       /\ Len(last.rows) = Len(page)
       /\ \A i \in 1..Len(page), f \in Fields \ {K_id} :
            last.rows[i][f] = last.pre.visible[page[i]][f]

\* C10: the total of findAndCount and the number of count are the backend's
\* number of documents matching the filter, whatever limit and offset are
C10_TotalIgnoresPage ==
  last.op \in {"findAndCount", "count"} =>
    last.total = Len(MatchIds(buildQuery(last.args.filter), last.pre.visible, 1))

C10_Witness ==
  /\ last.op = "findAndCount"
  /\ last.args.limit = 1 /\ last.args.offset = 1
  /\ Len(last.rows) = 1
  /\ last.total = 2

\* a bulk call: update or destroy given only a filter
BulkByFilter ==
  /\ last.op \in {"update", "destroy"}
  /\ last.args.filterByTk = Undef /\ JTruthy(last.args.filter)

\* the cap of the resolving search: 1000 unless the caller gives a limit
BulkCap(a) == IF a.limit = NoNum THEN 1000 ELSE a.limit

\* the identities of the documents the resolving search of a bulk call matches
Resolved ==
  Page(MatchIds(buildQuery(last.args.filter), last.pre.visible, 1),
       OffsetOr0(last.args), BulkCap(last.args))

WriteFn == IF last.op = "update" THEN "update" ELSE "delete"

\* C11: update and destroy given only a filter resolve the matching rows with one
\* search capped at 1000, or at the caller's limit, and then issue exactly one
\* identity-addressed write per resolved row, in resolved order, and no write to
\* any other identity
C11_ResolveThenWriteEach ==
  (BulkByFilter /\ last.fault = NoFault) =>
    /\ Len(last.calls)
         = 1 + Len(Resolved) + (IF last.op = "update" /\ Len(Resolved) > 0 THEN 1 ELSE 0)
    /\ last.calls[1].fn = "search"
    /\ last.calls[1].body.size = BulkCap(last.args)
    /\ \A i \in 1..Len(Resolved) :
         last.calls[1 + i].fn = WriteFn /\ last.calls[1 + i].id = Resolved[i]
    /\ (last.op = "update" /\ Len(Resolved) > 0
          => last.calls[Len(Resolved) + 2].fn = "search")

\* C12: a bulk update or destroy whose filter matches no document issues no
\* write request, raises no error and leaves the backend unchanged; update
\* returns the empty sequence
C12_ZeroMatchesNoOp ==
  (BulkByFilter /\ MatchIds(buildQuery(last.args.filter), last.pre.visible, 1) = <<>>) =>
    /\ last.err = "none"
    /\ last.rows = <<>>
    /\ \A i \in 1..Len(last.calls) : ~IsWriteCall(last.calls[i])
    /\ \A i \in 1..Len(last.wire) : ~IsWriteReq(last.wire[i])
    /\ docs = last.pre.docs /\ visible \in {last.pre.visible, docs}

C12_Witness ==
  /\ BulkByFilter /\ last.op = "update" /\ last.args.filter = F_status
  /\ prev.op = "update"
  /\ DOMAIN last.pre.visible = {<<"1">>, <<"2">>}
  /\ \A id \in DOMAIN last.pre.visible : last.pre.visible[id][K_status] = <<"b">>
  /\ Len(last.calls) = 1 /\ last.rows = <<>> /\ last.err = "none"
  /\ docs = last.pre.docs

\* C13: when the i-th per-row write of a bulk update or destroy fails, the error
\* reaches the caller, no write is attempted for the rows after i, and the writes
\* to rows 1..i-1 stay applied with nothing else changed
C13_PartialFailure ==
  (BulkByFilter /\ last.fault.at \in 1..Len(Resolved)) =>
    /\ last.err # "none"
    /\ Len(last.calls) = 1 + last.fault.at
    /\ \A j \in 2..Len(last.calls) : IsWriteCall(last.calls[j])
    /\ \A j \in 1..(last.fault.at - 1) :
         IF last.op = "destroy" THEN ToStr(last.calls[1 + j].id) \notin DOMAIN docs
         ELSE ToStr(last.calls[1 + j].id) \in DOMAIN last.pre.docs =>
                /\ ToStr(last.calls[1 + j].id) \in DOMAIN docs
                /\ \A f \in Fields :
                     last.args.values[f] # Undef
                       => docs[ToStr(last.calls[1 + j].id)][f] = last.args.values[f]
    /\ \A id \in DOMAIN last.pre.docs
                   \ {ToStr(last.calls[1 + j].id) : j \in 1..(last.fault.at - 1)} :
         id \in DOMAIN docs /\ docs[id] = last.pre.docs[id]

\* the documents that match RaceFilter
RaceMatches == {id \in DOMAIN docs : Matches(buildQuery(RaceFilter), docs[id])}

\* both concurrent callers have returned and neither lookup found a row
BothFoundNothing ==
  /\ DOMAIN callers = {1, 2}
  /\ \A p \in {1, 2} : callers[p].pc = "done" /\ callers[p].existing = <<>>

\* C14: firstOrCreate and updateOrCreate are not atomic: a caller whose lookup
\* found nothing creates, whatever the other caller did between its lookup and
\* its write; when neither lookup found a row both callers create and two
\* documents match the filter
C14_NoExclusion ==
  /\ \A p \in DOMAIN callers :
       (callers[p].pc = "done" /\ callers[p].existing = <<>>)
         => callers[p].created \in DOMAIN docs
  /\ (BothFoundNothing =>
        /\ callers[1].created # callers[2].created
        /\ {callers[1].created, callers[2].created} \subseteq RaceMatches)

C14_Witness ==
  /\ BothFoundNothing
  /\ client = "injected"
  /\ callers[1].op = "firstOrCreate" /\ callers[2].op = "updateOrCreate"
  /\ Cardinality(RaceMatches) = 2

\* the hit the lookup of firstOrCreate / updateOrCreate finds: the first document
\* its search matches
LookupHit == Page(MatchIds(last.calls[1].body.query, last.pre.visible, 1), 0, 1)

\* C15: run alone, firstOrCreate creates only when its lookup found no row and
\* else returns the found row with no write; updateOrCreate, when its lookup found
\* a row, applies the values to that row by its identity with no create, and else
\* issues exactly one create and no update
C15_OrCreateAlone ==
  last.op \in {"firstOrCreate", "updateOrCreate"} =>
    /\ last.calls[1].fn = "search"
    /\ (LookupHit = <<>> =>
          /\ Len(SelectSeq(last.calls, IsWriteCall)) = 1
          /\ SelectSeq(last.calls, IsWriteCall)[1].fn = "index")
    /\ (LookupHit # <<>> /\ last.op = "firstOrCreate" =>
          /\ SelectSeq(last.calls, IsWriteCall) = <<>>
          /\ docs = last.pre.docs
          /\ Len(last.rows) = 1
          /\ \A f \in Fields \ {K_id} :
               last.rows[1][f] = last.pre.visible[LookupHit[1]][f])
    /\ (LookupHit # <<>> /\ last.op = "updateOrCreate" =>
          /\ Len(SelectSeq(last.calls, IsWriteCall)) = 1
          /\ SelectSeq(last.calls, IsWriteCall)[1].fn = "update"
          /\ SelectSeq(last.calls, IsWriteCall)[1].id = LookupHit[1]
          /\ SelectSeq(last.calls, IsWriteCall)[1].doc = last.args.values)

\* the last two sync passes both fetched the remote schema, and ran to their
\* end, with the same remote field map and the same local overrides
SamePassTwice ==
  /\ synced.n >= 2
  /\ synced.fetch = "ok" /\ synced.before.fetch = "ok"
  /\ synced.err = "none" /\ synced.before.err = "none"
  /\ synced.remote = synced.before.remote
  /\ synced.local = synced.before.local

\* C16: schema sync is idempotent: a second pass with the same remote field
\* map and the same local overrides leaves the registry as the first pass left
\* it, the same definitions with the same fields in the same order.
C16_SyncIdempotent == SamePassTwice => registry = synced.pre.registry

\* the same pass ran twice over a collection the backend has, with a local
\* override, and over one it does not have
C16_Witness ==
  /\ SamePassTwice
  /\ \E i \in 1..Len(registry) : Len(registry[i].fields) >= 2
  /\ registry = synced.pre.registry
  /\ synced.local # <<>>

\* the fields of a definition have pairwise distinct names, exactly one of
\* them the primary key
DistinctNames(fields) ==
  \A i, j \in 1..Len(fields) : fields[i].name = fields[j].name => i = j
PrimaryKeys(fields) == {i \in 1..Len(fields) : fields[i].primaryKey}
OnePrimaryKey(fields) == Cardinality(PrimaryKeys(fields)) = 1

\* the local overrides of a collection declare no primary key (a remote
\* mapping property has no such flag)
NoDeclaredKey(name) ==
  \A i \in 1..Len(LocalFields(synced.local, name)) :
    ~LocalFields(synced.local, name)[i].primaryKey

\* C17: every definition a sync pass produces has pairwise distinct field
\* names and exactly one primary-key field; when neither side declares a
\* primary key it is the synthesized field named 'id', placed first.
C17_OnePrimaryKey ==
  \A k \in 1..Len(synced.defs) :
    /\ DistinctNames(synced.defs[k].fields)
    /\ OnePrimaryKey(synced.defs[k].fields)
    /\ NoDeclaredKey(synced.defs[k].name) =>
         /\ synced.defs[k].fields[1] = IdField
         /\ PrimaryKeys(synced.defs[k].fields) = {1}

\* the client.indices calls of the last pass of one kind
CallsOf(fn) == SelectSeq(synced.calls, LAMBDA call : call.fn = fn)

\* C18: if the remote schema fetch fails, the pass aborts before any registry
\* mutation and before any create-index request: the registry is as before the
\* pass, the fetch was attempted exactly once, and the error reaches the caller.
C18_FetchFailureAborts ==
  (synced.n > 0 /\ synced.fetch # "ok") =>
    /\ registry = synced.pre.registry
    /\ Len(CallsOf("create")) = 0
    /\ Len(CallsOf("getMapping")) = 1
    /\ synced.err # "none"

\* the registered definition of a collection has a field of that name
Registered(name, field) ==
  /\ hasCollection(registry, name)
  /\ HasName(GetByName(registry, name).fields, field)

\* C19: after a sync pass, every field named in a collection's local
\* overrides is a field of the collection's registered definition, whether or
\* not the remote schema declares the field or the collection.
C19_LocalFieldsKept ==
  (synced.n > 0 /\ synced.err = "none") =>
    \A k \in 1..Len(synced.local) :
      \A i \in 1..Len(synced.local[k].fields) :
        Registered(synced.local[k].name, synced.local[k].fields[i].name)

\* the create-index requests of the last pass for one collection
CreatesOf(name) ==
  SelectSeq(synced.calls, LAMBDA call : call.fn = "create" /\ call.index = name)

\* the backend type of a local field: its raw-type override, else the table's
\* entry for its semantic type, else the generic text type
TypedAs(field) ==
  CASE field.rawType # "" -> field.rawType
    [] field.rawType = "" /\ field.type \in DOMAIN DEFAULT_FIELD_MAP ->
         DEFAULT_FIELD_MAP[field.type]
    [] OTHER -> "text"

\* a mapping with one entry per field except 'id', each typed as above
MappingOf(properties, fields) ==
  /\ DistinctNames(properties)
  /\ \A i \in 1..Len(fields) :
       fields[i].name # K_id =>
         \E j \in 1..Len(properties) :
           properties[j] = Prop(fields[i].name, TypedAs(fields[i]))
  /\ \A j \in 1..Len(properties) :
       /\ properties[j].name # K_id
       /\ HasName(fields, properties[j].name)

\* the last pass fetched a remote schema
Fetched == synced.n > 0 /\ synced.fetch = "ok"

\* C20: for each collection of the local overrides that the remote schema
\* lacks, the pass issues one create-index request whose mapping has one entry
\* per local field except 'id', typed by the raw-type override, else the table,
\* else 'text'; for a collection the remote schema has, it issues none.
C20_CreateFromLocal ==
  Fetched =>
    \A k \in 1..Len(synced.local) :
      IF HasName(synced.remote, synced.local[k].name)
      THEN Len(CreatesOf(synced.local[k].name)) = 0
      ELSE /\ Len(CreatesOf(synced.local[k].name)) = 1
           /\ MappingOf(CreatesOf(synced.local[k].name)[1].properties,
                        synced.local[k].fields)

\* a pass created the index of a local collection with an 'id' field, a field
\* with a raw type, one with a table type and one with an unmapped type
C20_Witness ==
  /\ Fetched
  /\ \E k \in 1..Len(synced.local) :
       /\ ~HasName(synced.remote, synced.local[k].name)
       /\ HasName(synced.local[k].fields, K_id)
       /\ Len(CreatesOf(synced.local[k].name)) = 1
       /\ {CreatesOf(synced.local[k].name)[1].properties[j].type :
             j \in 1..Len(CreatesOf(synced.local[k].name)[1].properties)}
            = {"keyword", "integer", "text"}

\* the field carries the attributes of the local field, the interface
\* defaulted when the local field has none
CarriesLocal(field, local) ==
  /\ field.name = local.name
  /\ field.type = local.type
  /\ field.primaryKey = local.primaryKey
  /\ field.rawType = local.rawType
  /\ field.interface = (IF local.interface # "" THEN local.interface ELSE "input")

\* the field carries the type of the remote property and the default
\* interface
CarriesRemote(field, prop) ==
  /\ field.name = prop.name
  /\ field.type = prop.type
  /\ field.interface = "input"

\* the merged fields of a definition: its fields after the synthesized 'id',
\* which is there when the local overrides have no field named 'id'
Merged(def) ==
  IF HasName(LocalFields(synced.local, def.name), K_id) THEN def.fields
  ELSE Tail(def.fields)

\* the merged field of one remote property is the local field of that name
\* when there is one, the remote one otherwise
MergedAs(field, prop, local) ==
  IF HasName(local, prop.name) THEN CarriesLocal(field, GetByName(local, prop.name))
  ELSE CarriesRemote(field, prop)

\* C21: in the merged field list of a collection, a field whose name occurs
\* both remotely and locally carries the local attributes, and a field that
\* occurs only remotely carries the remote type and the default interface.
C21_LocalWins ==
  Fetched =>
    \A k \in 1..Len(synced.defs) :
      /\ Len(Merged(synced.defs[k])) = Len(EsMapping(synced.remote, synced.defs[k].name))
      /\ \A i \in 1..Len(Merged(synced.defs[k])) :
           MergedAs(Merged(synced.defs[k])[i],
                    EsMapping(synced.remote, synced.defs[k].name)[i],
                    LocalFields(synced.local, synced.defs[k].name))

\* a definition merged a remote-only property and a property that a local
\* field of another type overrides
C21_Witness ==
  /\ Fetched
  /\ \E k \in 1..Len(synced.defs) :
       \E i, j \in 1..Len(EsMapping(synced.remote, synced.defs[k].name)) :
         /\ ~HasName(LocalFields(synced.local, synced.defs[k].name),
                     EsMapping(synced.remote, synced.defs[k].name)[i].name)
         /\ HasName(LocalFields(synced.local, synced.defs[k].name),
                    EsMapping(synced.remote, synced.defs[k].name)[j].name)
         /\ Merged(synced.defs[k])[j].type
              # EsMapping(synced.remote, synced.defs[k].name)[j].type

\* every collection of the earlier registry is in the later one, with every
\* field it had
Grown(earlier, later) ==
  \A i \in 1..Len(earlier) :
    /\ hasCollection(later, earlier[i].name)
    /\ \A j \in 1..Len(earlier[i].fields) :
         HasName(GetByName(later, earlier[i].name).fields, earlier[i].fields[j].name)

\* C22: the registry only grows under sync: after every pass, whatever its
\* remote and local inputs, each collection registered before it is still
\* registered and each field it had is still one of its fields.
C22_RegistryGrows == synced.n > 0 => Grown(synced.pre.registry, registry)

\* a pass handed the registry a definition of a known collection that lacks
\* a field the collection had, and the collection still has it
C22_Witness ==
  /\ synced.n > 0
  /\ \E k \in 1..Len(synced.defs) :
       /\ hasCollection(synced.pre.registry, synced.defs[k].name)
       /\ \E j \in 1..Len(GetByName(synced.pre.registry, synced.defs[k].name).fields) :
            /\ ~HasName(synced.defs[k].fields,
                        GetByName(synced.pre.registry, synced.defs[k].name).fields[j].name)
            /\ HasName(GetByName(registry, synced.defs[k].name).fields,
                       GetByName(synced.pre.registry, synced.defs[k].name).fields[j].name)

\* two configurations that differ at most in their basic-auth credentials
SameButCredentials(a, b) ==
  /\ DOMAIN a \ {"username", "password"} = DOMAIN b \ {"username", "password"}
  /\ \A k \in DOMAIN a \ {"username", "password"} : a[k] = b[k]

\* C23: the externally exposed configuration snapshot contains none of the
\* configured credentials: the snapshots of two configurations that differ
\* only in username and password are equal.
C23_NoCredentials ==
  (last.op = "publicOptions" /\ prev.op = "publicOptions"
     /\ SameButCredentials(last.input, prev.input)) =>
    /\ DOMAIN last.output \cap {"username", "password"} = {}
    /\ last.output = prev.output

\* the latest two applications compiled the same filter
CompiledTwice ==
  last.op = "buildQuery" /\ prev.op = "buildQuery" /\ last.input = prev.input

\* a filter object whose keys are fields: it has neither $and nor $or
FieldKeyed(filter) ==
  /\ filter.t = "obj"
  /\ ~JTruthy(JGet(filter, K_and))
  /\ ~JTruthy(JGet(filter, K_or))

\* the position of a field among the entries of a filter object
KeyIndex(filter, field) ==
  CHOOSE i \in 1..Len(filter.ents) : filter.ents[i].k = field

\* the clauses follow the filter's field iteration order
InKeyOrder(clauses, filter) ==
  \A i, j \in 1..Len(clauses) :
    i < j => KeyIndex(filter, clauses[i].field) <= KeyIndex(filter, clauses[j].field)

\* the query has neither a must nor a must-not clause
NoClause(q) == q.t = "match_all" \/ (Len(q.must) = 0 /\ Len(q.must_not) = 0)

RangeOps == {K_gt, K_gte, K_lt, K_lte}
Bounds(ops) ==
  {Ent(Tail(ops.ents[i].k), ops.ents[i].v) :
     i \in {j \in 1..Len(ops.ents) : ops.ents[j].k \in RangeOps}}

\* the range clauses on a field among the clauses of a query
RangesOn(q, field) ==
  IF q.t # "bool" THEN <<>>
  ELSE SelectSeq(q.must \o q.must_not \o q.should,
                 LAMBDA clause : clause.t = "range" /\ clause.field = field)

\* the bounds a range clause carries
Carried(clause) == {clause.value.ents[i] : i \in 1..Len(clause.value.ents)}

\* the entries of a field-keyed filter whose operator object has a range operator
Ranged(filter) ==
  {i \in 1..Len(filter.ents) :
     /\ ~startsWith(filter.ents[i].k, "$")
     /\ filter.ents[i].v.t = "obj"
     /\ Bounds(filter.ents[i].v) # {}}

\* C25: for a field whose operator object holds $gt/$gte/$lt/$lte operators,
\* the compiled query has exactly one range clause on the field, among the
\* must clauses, carrying every given bound, whatever else the object holds.
C25_OneRangeClause ==
  (last.op = "buildQuery" /\ FieldKeyed(last.input)) =>
    \A i \in Ranged(last.input) :
      /\ Len(RangesOn(last.output, last.input.ents[i].k)) = 1
      /\ Carried(RangesOn(last.output, last.input.ents[i].k)[1])
           = Bounds(last.input.ents[i].v)
      /\ \E j \in 1..Len(last.output.must) :
           last.output.must[j] = RangesOn(last.output, last.input.ents[i].k)[1]

\* an operator object with two bounds around another operator compiled into
\* one range clause of two bounds and the other operator's clause
C25_Witness ==
  /\ last.op = "buildQuery"
  /\ FieldKeyed(last.input)
  /\ \E i \in Ranged(last.input) :
       /\ Len(last.input.ents[i].v.ents) = 3
       /\ Cardinality(Bounds(last.input.ents[i].v)) = 2
       /\ Len(RangesOn(last.output, last.input.ents[i].k)) = 1
       /\ Cardinality(Carried(RangesOn(last.output, last.input.ents[i].k)[1])) = 2
       /\ Len(last.output.must) = 2

\* a filter object with the one key given, holding a list
OnlyKey(filter, key) ==
  /\ filter.t = "obj"
  /\ Len(filter.ents) = 1
  /\ filter.ents[1].k = key
  /\ filter.ents[1].v.t = "arr"

\* the clauses are, in order, the compilations of the elements
CompiledEach(clauses, elements) ==
  /\ Len(clauses) = Len(elements)
  /\ \A i \in 1..Len(elements) : clauses[i] = buildQuery(elements[i])

\* { bool: { must } } and nothing else
IsMust(q) ==
  /\ q.t = "bool" /\ q.keys = <<"must">>
  /\ q.must_not = <<>> /\ q.should = <<>> /\ q.minimum_should_match = 0

\* { bool: { should, minimum_should_match: 1 } } and nothing else
IsShould(q) ==
  /\ q.t = "bool" /\ q.keys = <<"should", "minimum_should_match">>
  /\ q.must = <<>> /\ q.must_not = <<>> /\ q.minimum_should_match = 1

\* C26: compile({$or: [c1..cn]}) is a should-clause with minimum-match 1 whose
\* n sub-clauses are, in order, the compilations of c1..cn; a non-empty list
\* and an $and key give a must-clause of the compilations of the elements in
\* order.
C26_AndOr ==
  last.op = "buildQuery" =>
    /\ OnlyKey(last.input, K_or) =>
         /\ IsShould(last.output)
         /\ CompiledEach(last.output.should, last.input.ents[1].v.items)
    /\ OnlyKey(last.input, K_and) =>
         /\ IsMust(last.output)
         /\ CompiledEach(last.output.must, last.input.ents[1].v.items)
    /\ (last.input.t = "arr" /\ last.input.items # <<>>) =>
         /\ IsMust(last.output)
         /\ CompiledEach(last.output.must, last.input.items)

\* { $or: [{ status: 'a' }, { title: 'a' }] } compiled into a should-clause
\* of the two term queries, in that order
C26_Witness ==
  /\ last.op = "buildQuery"
  /\ OnlyKey(last.input, K_or)
  /\ IsShould(last.output)
  /\ last.output.should
       = <<BoolMust(<<Leaf("term", K_status, V_a)>>),
           BoolMust(<<Leaf("term", K_title, V_a)>>)>>

\* the string without its blanks
RECURSIVE Despace(_)
Despace(s) ==
  IF s = <<>> THEN <<>>
  ELSE (IF Head(s) = " " THEN <<>> ELSE <<Head(s)>>) \o Despace(Tail(s))

\* { [field]: { order } } with order asc or desc, and its field and order
IsSortEntry(e) ==
  /\ e.t = "obj" /\ Len(e.ents) = 1
  /\ e.ents[1].v.t = "obj" /\ Len(e.ents[1].v.ents) = 1
  /\ e.ents[1].v.ents[1].k = K_order
  /\ e.ents[1].v.ents[1].v \in {JStr(S_asc), JStr(S_desc)}
EntryField(e) == e.ents[1].k
EntryDesc(e) == e.ents[1].v.ents[1].v = JStr(S_desc)

\* the token an entry stands for: '-field' when descending, 'field' otherwise
TokenOf(e) == IF EntryDesc(e) THEN <<"-">> \o EntryField(e) ELSE EntryField(e)

\* the entry is the one of some token: an ascending one never starts with '-'
FromToken(e) ==
  /\ IsSortEntry(e)
  /\ ~includes(EntryField(e), ",")
  /\ ~EntryDesc(e) => ~startsWith(EntryField(e), "-")

\* the tokens of the entries, joined by commas
RECURSIVE Joined(_, _)
Joined(entries, i) ==
  IF i > Len(entries) THEN <<>>
  ELSE (IF i > 1 THEN <<",">> ELSE <<>>) \o TokenOf(entries[i]) \o Joined(entries, i + 1)

\* C27: normalizeSort of a comma-delimited string, and of an array of string
\* tokens, has one entry per token in input order, descending with the leading
\* '-' stripped when the token starts with '-', ascending otherwise; structured
\* entries of an array pass through unchanged.
C27_SortTokens ==
  last.op = "normalizeSort" =>
    /\ (last.input.t = "str" /\ last.input.s # <<>>) =>
         /\ \A i \in 1..Len(last.output) : FromToken(last.output[i])
         /\ Joined(last.output, 1) = Despace(last.input.s)
    /\ last.input.t = "arr" =>
         /\ Len(last.output) = Len(last.input.items)
         /\ \A i \in 1..Len(last.input.items) :
              IF last.input.items[i].t = "str"
              THEN /\ FromToken(last.output[i])
                   /\ TokenOf(last.output[i]) = last.input.items[i].s
              ELSE last.output[i] = last.input.items[i]

\* '-a,b' normalised to [{ a: { order: 'desc' } }, { b: { order: 'asc' } }]
C27_Witness ==
  /\ last.op = "normalizeSort"
  /\ last.input = JStr(<<"-", "a", ",", "b">>)
  /\ last.output = <<SortEntry(T_a, S_desc), SortEntry(T_b, S_asc)>>

\* a string of blanks, the empty string included
Blank(s) == Despace(s) = <<>>

\* a comma-delimited string with an empty token
EmptyToken(s) ==
  /\ ~Blank(s)
  /\ \/ Despace(s)[1] = ","
     \/ Despace(s)[Len(Despace(s))] = ","
     \/ \E i \in 1..(Len(Despace(s)) - 1) : Despace(s)[i] = "," /\ Despace(s)[i + 1] = ","

\* not a well-formed sort specification: absent, empty or malformed
Malformed(sort) ==
  CASE sort.t = "undef" -> TRUE
    [] sort.t = "str" -> Blank(sort.s) \/ EmptyToken(sort.s)
    [] sort.t = "arr" ->
         \/ sort.items = <<>>
         \/ \E i \in 1..Len(sort.items) :
              sort.items[i].t = "str" /\ Blank(sort.items[i].s)
    [] OTHER -> TRUE

\* C28: normalizeSort returns the empty list for every input that is not a
\* well-formed sort specification: absent, empty, or malformed, blank strings
\* and empty tokens included.
C28_MalformedIsEmpty ==
  (last.op = "normalizeSort" /\ Malformed(last.input)) => last.output = <<>>

\* the Row of the document stored under an identity, in the documents (a get)
\* or in the searchable snapshot (a search): its stored fields, with that
\* identity as id
RowOf(d, id) == [d[id] EXCEPT ![K_id] = id]

\* the last call read Rows from backend hits
ReadRows ==
  /\ last.op \in {"find", "findAndCount", "findOne"}
  /\ last.err = "none"

\* C29: every Row materialized from a backend hit by find, findAndCount and
\* findOne has the backend identity of its document as id, on the Row and in
\* its JSON form, even when the stored fields hold a value under 'id'.
C29_RowIdentity ==
  ReadRows =>
    \A i \in 1..Len(last.rows) :
      \/ \E id \in DOMAIN last.pre.docs : last.rows[i] = RowOf(last.pre.docs, id)
      \/ \E id \in DOMAIN last.pre.visible : last.rows[i] = RowOf(last.pre.visible, id)

\* a filter object with the key given, holding a list, next to other keys
KeyAmong(filter, key) ==
  /\ filter.t = "obj"
  /\ Len(filter.ents) > 1
  /\ JGet(filter, key).t = "arr"

\* C30: in a filter object that has an $and key, buildQuery returns only the
\* conjunction of the $and elements: an $or key and the field-keyed conditions
\* next to it contribute no clause; likewise with $or and no $and, the
\* field-keyed siblings contribute no clause.
C30_SiblingsIgnored ==
  last.op = "buildQuery" =>
    /\ KeyAmong(last.input, K_and) =>
         /\ IsMust(last.output)
         /\ CompiledEach(last.output.must, JGet(last.input, K_and).items)
    /\ (KeyAmong(last.input, K_or) /\ JGet(last.input, K_and) = JUndef) =>
         /\ IsShould(last.output)
         /\ CompiledEach(last.output.should, JGet(last.input, K_or).items)

\* a filter with $and, $or and a field condition compiled into the
\* conjunction of its one $and element
C30_Witness ==
  /\ last.op = "buildQuery"
  /\ KeyAmong(last.input, K_and)
  /\ KeyAmong(last.input, K_or)
  /\ Len(last.input.ents) = 3
  /\ last.output = BoolMust(<<BoolMust(<<Leaf("term", K_title, V_a)>>)>>)

====
